---- MODULE Spec2Model ----
(***************************************************************************)
(* Transactional posting of imagination-labs/lefra:                        *)
(*   TypeormLedgerStorage.insertTransaction / withTransaction running on a *)
(*   PgQueryRunner, plus the reads used to observe what was posted.        *)
(* The relational engine is modelled as a committed store, the pending     *)
(* writes of the one connection the runner holds, and the state of the     *)
(* database transaction on that connection.                                *)
(***************************************************************************)
EXTENDS Integers, Sequences, FiniteSets, TLC

\* ---------------------------------------------------------------- bounds
MaxCalls == 2
MaxDoubleEntries == 1

\* ------------------------------------------------------------- seed data
\* seedLedger() of the storage tests: one ledger, one system account, one
\* entity account type.
ledgerSlug == "TYPEORM_LEDGER"
UnknownLedgerSlug == "NO_SUCH_LEDGER"
SeedLedger == [id |-> 1, slug |-> ledgerSlug, minimumFractionDigits |-> 2]
SeedAccountTypes ==
  { [id |-> 1, slug |-> "SYSTEM_INCOME", normalBalance |-> "CREDIT",
     isEntityLedgerAccount |-> FALSE, parentLedgerAccountTypeId |-> 0],
    [id |-> 2, slug |-> "USER_RECEIVABLES", normalBalance |-> "DEBIT",
     isEntityLedgerAccount |-> TRUE, parentLedgerAccountTypeId |-> 0] }
SeedAccounts ==
  { [id |-> 1, slug |-> "SYSTEM_INCOME_PAID_PROJECTS", ledgerAccountTypeId |-> 1,
     ledgerId |-> 1] }
SeedCurrencies == { [id |-> 1, code |-> "USD"] }
\* A second ledger of the same database, without accounts.
OtherLedger == [id |-> 2, slug |-> "OTHER_LEDGER", minimumFractionDigits |-> 2]
Ledgers == {SeedLedger, OtherLedger}
\* ledger_ledger_account_type: the seed assigns both account types to the
\* seeded ledger.
SeedLedgerAccountTypes ==
  { [ledgerId |-> 1, ledgerAccountTypeId |-> 1],
    [ledgerId |-> 1, ledgerAccountTypeId |-> 2] }

\* ------------------------------------------------------ account references
ACCOUNT_SLUG_SEPARATOR == ":"

EntityAccountRef(name, externalId) ==
  [type |-> "ENTITY", ledgerSlug |-> ledgerSlug, name |-> name,
   externalId |-> externalId,
   accountSlug |-> name \o ACCOUNT_SLUG_SEPARATOR \o externalId]

SystemAccountRef(name) ==
  [type |-> "SYSTEM", ledgerSlug |-> ledgerSlug, name |-> name,
   externalId |-> "", accountSlug |-> name]

Refs ==
  { EntityAccountRef("USER_RECEIVABLES", "2"),
    SystemAccountRef("SYSTEM_INCOME_PAID_PROJECTS"),
    SystemAccountRef("SYSTEM_MISSING") }

\* ------------------------------------------------------------ transactions
\* usd(100) at full precision, in minor units.
Usd100 == 10000

doubleEntry(debitRef, creditRef) ==
  << [account |-> debitRef, action |-> "DEBIT", amount |-> Usd100],
     [account |-> creditRef, action |-> "CREDIT", amount |-> Usd100] >>

DoubleEntries ==
  { doubleEntry(EntityAccountRef("USER_RECEIVABLES", "2"),
                SystemAccountRef("SYSTEM_INCOME_PAID_PROJECTS")),
    doubleEntry(EntityAccountRef("USER_RECEIVABLES", "2"),
                SystemAccountRef("SYSTEM_MISSING")),
    doubleEntry(SystemAccountRef("SYSTEM_MISSING"),
                SystemAccountRef("SYSTEM_INCOME_PAID_PROJECTS")) }

RECURSIVE flatEntries(_)
flatEntries(des) ==
  IF des = << >> THEN << >> ELSE Head(des) \o flatEntries(Tail(des))

SeqsUpTo(S, n) == UNION { [1..m -> S] : m \in 1..n }

Transactions ==
  { [ledgerSlug |-> ledgerSlug, transactionDoubleEntries |-> des] :
      des \in SeqsUpTo(DoubleEntries, MaxDoubleEntries) }
  \cup { [ledgerSlug |-> UnknownLedgerSlug, transactionDoubleEntries |-> des] :
      des \in SeqsUpTo(DoubleEntries, 1) }

\* ---------------------------------------------------------------- tables
EmptyTables ==
  [tx |-> {}, entries |-> {}, accounts |-> {}, types |-> {}, currencies |-> {}]

Merge(a, b) ==
  [tx |-> a.tx \cup b.tx,
   entries |-> a.entries \cup b.entries,
   accounts |-> a.accounts \cup b.accounts,
   types |-> a.types \cup b.types,
   currencies |-> a.currencies \cup b.currencies]

\* What a statement on the runner's connection reads: the committed rows
\* and the rows written by the connection's own open transaction.
View(d) == Merge(d.committed, d.pending)

\* A write that replaces the rows of the tables instead of adding to them.
WriteRows_Replacing(d, rows) ==
  IF d.tx = "open"
    THEN [d EXCEPT !.pending = rows]
    ELSE [d EXCEPT !.committed = rows]

\* A row written by a statement: into the open transaction, or committed at
\* once when the connection is in autocommit mode.
WriteRows(d, rows) ==
  IF d.tx = "open"
    THEN [d EXCEPT !.pending = Merge(@, rows)]
    ELSE [d EXCEPT !.committed = Merge(@, rows)]

\* -------------------------------------------------------------- errors
NoError == [type |-> "none", at |-> "none"]
Err(type, at) == [type |-> type, at |-> at]

\* What the connection does to one statement: it runs ("ok"), the server
\* rejects it ("stmt": inside a transaction the transaction is then aborted
\* and takes no further statement), or the connection is lost ("conn": the
\* server aborts the open transaction and the client is broken for good).
\* BEGIN and ROLLBACK fail only with the connection.  A COMMIT that fails
\* has committed nothing.
Faults == {"ok", "stmt", "conn"}
ConnFaults == {"ok", "conn"}

\* ------------------------------------------------------------ PgQueryRunner
\* A runner is [client, isTransactionActive, poolEnded]; the database side of
\* its connection is d = [committed, pending, tx, broken, next*Id].
\* Every operator returns the runner and database afterwards and the error
\* it threw ("none" when it returned).
Ret(r, d, err) == [r |-> r, d |-> d, err |-> err]

\* The connection is gone: the server aborts the transaction it had open.
ConnectionLost(d) ==
  [d EXCEPT !.broken = TRUE, !.tx = "none", !.pending = EmptyTables]

\* getClient(): the held client, or a new one from the pool; pool.connect()
\* of a pool that was ended is rejected ("Cannot use a pool after calling
\* end on the pool").
getClient(r) ==
  IF r.client THEN [r |-> r, err |-> "none"]
  ELSE IF r.poolEnded THEN [r |-> r, err |-> "PoolEnded"]
  ELSE [r |-> [r EXCEPT !.client = TRUE], err |-> "none"]

\* query(): one statement on the held client.  f is what the connection
\* does to it: "ok", a statement error, or the loss of the connection.
\* The rows the statement reads or writes are the caller's business.
query(r, d, f) ==
  LET c == getClient(r) IN
  IF c.err # "none" THEN Ret(c.r, d, c.err)
  ELSE IF d.broken \/ f = "conn" THEN Ret(c.r, ConnectionLost(d), "ConnError")
  ELSE IF d.tx = "aborted" THEN Ret(c.r, d, "TxAborted")
  ELSE IF f = "stmt"
    THEN Ret(c.r, [d EXCEPT !.tx = IF @ = "open" THEN "aborted" ELSE @], "StmtError")
  ELSE Ret(c.r, d, "none")

\* release(): gives the client back and ends the pool, which closes the
\* connection; pool.end() of an ended pool is rejected ("Called end on pool
\* more than once").
release(r, d) ==
  LET r1 == [r EXCEPT !.client = FALSE]
      d1 == IF r.client
              THEN [d EXCEPT !.broken = FALSE, !.tx = "none", !.pending = EmptyTables]
              ELSE d
  IN IF r.poolEnded THEN Ret(r1, d1, "PoolEndedTwice")
     ELSE Ret([r1 EXCEPT !.poolEnded = TRUE], d1, "none")

\* startTransaction(): BEGIN, then the flag.
startTransaction(r, d, f) ==
  LET c == getClient(r) IN
  IF c.err # "none" THEN Ret(c.r, d, c.err)
  ELSE IF d.broken \/ f = "conn" THEN Ret(c.r, ConnectionLost(d), "ConnError")
  ELSE IF d.tx = "aborted" THEN Ret(c.r, d, "TxAborted")
  ELSE Ret([c.r EXCEPT !.isTransactionActive = TRUE], [d EXCEPT !.tx = "open"], "none")

\* commitTransaction(): nothing without a client; COMMIT, the flag, release.
\* COMMIT of an aborted transaction succeeds and rolls back; a COMMIT the
\* server refuses leaves nothing of the transaction.
commitTransaction(r, d, f) ==
  IF ~r.client THEN Ret(r, d, "none")
  ELSE IF d.broken \/ f = "conn" THEN Ret(r, ConnectionLost(d), "ConnError")
  ELSE IF d.tx = "open" /\ f = "stmt"
    THEN Ret(r, [d EXCEPT !.tx = "none", !.pending = EmptyTables], "StmtError")
  ELSE
    LET d1 == IF d.tx = "open"
                THEN [d EXCEPT !.committed = Merge(@, d.pending),
                               !.pending = EmptyTables, !.tx = "none"]
                ELSE [d EXCEPT !.pending = EmptyTables, !.tx = "none"]
    IN release([r EXCEPT !.isTransactionActive = FALSE], d1)

\* rollbackTransaction(): nothing without a client; ROLLBACK, the flag,
\* release.  ROLLBACK fails only with the connection.
rollbackTransaction(r, d, f) ==
  IF ~r.client THEN Ret(r, d, "none")
  ELSE IF d.broken \/ f = "conn" THEN Ret(r, ConnectionLost(d), "ConnError")
  ELSE release([r EXCEPT !.isTransactionActive = FALSE],
               [d EXCEPT !.pending = EmptyTables, !.tx = "none"])

\* ----------------------------------------------------- persistence functions
\* SELECT ... FROM ledger WHERE slug = $1
LedgerRows(slug) == { l \in Ledgers : l.slug = slug }

\* SELECT ... FROM ledger_transaction WHERE id = $1
TransactionRows(t, id) == { row \in t.tx : row.id = id }

\* SELECT ... FROM ledger_transaction_entry WHERE ledger_transaction_id = $1
EntryRows(t, id) == { row \in t.entries : row.tx = id }

\* SELECT ... FROM ledger_account WHERE slug = $1 AND ledger_id = $2
AccountRowsIn(t, ledgerId, slug) ==
  { row \in t.accounts : row.slug = slug /\ row.ledgerId = ledgerId }

\* The same for the seeded ledger, the one every posting names.
AccountRows(t, slug) == AccountRowsIn(t, SeedLedger.id, slug)

\* findSystemAccounts: the accounts of the ledger whose type is not
\* entity-scoped.
findSystemAccounts(t, ledgerId) ==
  { la \in t.accounts :
      /\ la.ledgerId = ledgerId
      /\ \E lat \in t.types :
           lat.id = la.ledgerAccountTypeId /\ ~lat.isEntityLedgerAccount }

\* findEntityAccountTypes: the entity-scoped account types assigned to the
\* ledger.
findEntityAccountTypes(t, ledgerId) ==
  { lat \in t.types :
      /\ lat.isEntityLedgerAccount
      /\ \E llat \in SeedLedgerAccountTypes :
           llat.ledgerId = ledgerId /\ llat.ledgerAccountTypeId = lat.id }

\* ledger_account_id(ledger, slug): the id of the account, or null (0).
SystemAccountId(t, slug) ==
  IF AccountRows(t, slug) = {} THEN 0 ELSE (CHOOSE row \in AccountRows(t, slug) : TRUE).id

\* The entity account types named name.
EntityTypes(t, name) ==
  { ty \in t.types : ty.slug = name /\ ty.isEntityLedgerAccount }

EntityTypeExists(t, name) == EntityTypes(t, name) # {}

\* ledger_account_id(ledger, name, externalId): the id of the entity account,
\* provisioning it on first use; null (0) without an entity account type.
\* Returns the id and the database after the statement.
EntityAccountId(d, name, externalId) ==
  LET slug == name \o ACCOUNT_SLUG_SEPARATOR \o externalId
      found == AccountRows(View(d), slug)
  IN IF found # {} THEN [id |-> (CHOOSE row \in found : TRUE).id, d |-> d]
     ELSE IF ~EntityTypeExists(View(d), name) THEN [id |-> 0, d |-> d]
     ELSE [id |-> d.nextAcctId,
           d |-> [WriteRows(d, [EmptyTables EXCEPT !.accounts =
                     {[id |-> d.nextAcctId, slug |-> slug,
                       ledgerAccountTypeId |->
                         (CHOOSE ty \in EntityTypes(View(d), name) : TRUE).id,
                       ledgerId |-> SeedLedger.id]}])
                  EXCEPT !.nextAcctId = @ + 1]]

NormalBalanceOf(t, accountId) ==
  LET acct == CHOOSE row \in t.accounts : row.id = accountId
      ty == CHOOSE x \in t.types : x.id = acct.ledgerAccountTypeId
  IN ty.normalBalance

RECURSIVE SumSigned(_, _)
SumSigned(rows, normal) ==
  IF rows = {} THEN 0
  ELSE LET row == CHOOSE x \in rows : TRUE
       IN (IF row.action = normal THEN row.amount ELSE 0 - row.amount)
          + SumSigned(rows \ {row}, normal)

\* calculate_balance_for_ledger_account(id)
calculate_balance_for_ledger_account(t, accountId) ==
  SumSigned({ row \in t.entries : row.account = accountId },
            NormalBalanceOf(t, accountId))

\* Unit.toString(): the amount rounded to the currency's fraction digits.
Pad2(n) == IF n < 10 THEN "0" \o ToString(n) ELSE ToString(n)
UnitToString(minor) ==
  (IF minor < 0 THEN "-" ELSE "")
  \o ToString((IF minor < 0 THEN 0 - minor ELSE minor) \div 100)
  \o "." \o Pad2((IF minor < 0 THEN 0 - minor ELSE minor) % 100)

\* ------------------------------------------------- TypeormLedgerStorage
LedgerIsMissing_Never(rows) == FALSE

\* getLedgerIdBySlug: no row is LedgerNotFound.
LedgerIsMissing(rows) == rows = {}

OwnsBoundary_IgnoringActive(manage, alreadyActive) == manage
OwnsBoundary_Never(manage, alreadyActive) == FALSE

\* withTransaction: this call starts, commits and rolls back the
\* transaction itself exactly when the storage manages transactions and
\* none is active on the runner.
OwnsBoundary(manage, alreadyActive) == manage /\ ~alreadyActive

CommitsOnSuccess_Never(ownsB) == FALSE

\* withTransaction, try block: commit after the routine returned.
CommitsOnSuccess(ownsB) == ownsB

RollsBackOnFailure_Never(ownsB) == FALSE
RollsBackOnFailure_Always(ownsB) == TRUE

\* withTransaction, catch block: rollback after the routine threw.
RollsBackOnFailure(ownsB) == ownsB

\* withTransaction, catch block: `await rollbackTransaction(); throw error`.
\* The error of a failing rollback leaves the catch block instead.
Rethrown(original, rollbackErr) ==
  IF rollbackErr # "none" THEN Err(rollbackErr, "rollback") ELSE original

EntryAt_Reversed(entries, i) == entries[Len(entries) + 1 - i]

\* insertTransaction: the loop over flatEntries() visits the entries in order.
EntryAt(entries, i) == entries[i]

EntityAccountArgs_LedgerSlug(account) ==
  [name |-> account.name, externalId |-> account.ledgerSlug]

\* resolveLedgerAccountId: what is handed to ledger_account_id for an
\* EntityAccountRef, [ledgerId, account.name, account.externalId.toString()].
EntityAccountArgs(account) ==
  [name |-> account.name, externalId |-> account.externalId]

AccountIsMissing_Never(id) == FALSE

\* insertTransaction: resolveLedgerAccountId throws when the id is null.
AccountIsMissing(id) == id = 0

\* insertTransaction: the projection returned to the caller.
Projection(id, ledger) == [status |-> "ok", id |-> id, ledgerId |-> ledger, error |-> NoError]

Thrown(e) == [status |-> "throw", id |-> 0, ledgerId |-> 0, error |-> e]
NoOutcome == [status |-> "none", id |-> 0, ledgerId |-> 0, error |-> NoError]

\* ------------------------------------------------------------ constructor
\* A QueryRunnerLike as the constructor sees it: which of its optional
\* members are there.  Absent stands for null or undefined.
RunnerLike(q, s, c, r) ==
  [present |-> TRUE, query |-> q, startTransaction |-> s,
   commitTransaction |-> c, rollbackTransaction |-> r]
Absent ==
  [present |-> FALSE, query |-> FALSE, startTransaction |-> FALSE,
   commitTransaction |-> FALSE, rollbackTransaction |-> FALSE]
QueryRunnerLikes ==
  { Absent, RunnerLike(TRUE, TRUE, TRUE, TRUE), RunnerLike(TRUE, TRUE, TRUE, FALSE),
    RunnerLike(TRUE, FALSE, FALSE, FALSE) }

\* An EntityManagerLike: query and an optional queryRunner.
NoManager == [present |-> FALSE, queryRunner |-> Absent]
EntityManagerLikes ==
  {NoManager} \cup { [present |-> TRUE, queryRunner |-> qr] : qr \in QueryRunnerLikes }

\* What can be handed over as runnerOrManager: an object with any of
\* query, startTransaction, commitTransaction, rollbackTransaction, and
\* optionally a queryRunner (an entity manager) or a manager (a runner).
RunnerOrManagers ==
  [query : BOOLEAN, startTransaction : BOOLEAN, commitTransaction : BOOLEAN,
   rollbackTransaction : BOOLEAN, queryRunner : QueryRunnerLikes,
   manager : EntityManagerLikes]

\* options.manageTransaction
Options == {"undefined", "true", "false"}

\* The PgQueryRunner of the tests.
PgQueryRunnerLike ==
  [query |-> TRUE, startTransaction |-> TRUE, commitTransaction |-> TRUE,
   rollbackTransaction |-> TRUE, queryRunner |-> Absent, manager |-> NoManager]

\* isEntityManagerLike: 'query' in value and not 'startTransaction' in value.
isEntityManagerLike(value) == value.query /\ ~value.startTransaction

\* this.runner after the constructor's if/else.
RunnerOf(value) ==
  IF isEntityManagerLike(value)
    THEN IF value.queryRunner.present THEN value.queryRunner
         ELSE RunnerLike(TRUE, FALSE, FALSE, FALSE)
    ELSE RunnerLike(value.query, value.startTransaction,
                    value.commitTransaction, value.rollbackTransaction)

\* this.manager after the constructor's if/else.
ManagerOf(value) ==
  IF isEntityManagerLike(value)
    THEN [present |-> TRUE, queryRunner |-> value.queryRunner]
    ELSE value.manager

HasTransactionMethods_StartOnly(r) == r.present /\ r.startTransaction

\* getTransactionRunner: the three methods it asks of a candidate.
HasTransactionMethods(r) ==
  /\ r.present
  /\ r.startTransaction
  /\ r.commitTransaction
  /\ r.rollbackTransaction

\* getTransactionRunner(): this.runner, else this.manager.queryRunner, else
\* null.
getTransactionRunner(thisRunner, thisManager) ==
  IF HasTransactionMethods(thisRunner) THEN thisRunner
  ELSE IF thisManager.present /\ HasTransactionMethods(thisManager.queryRunner)
    THEN thisManager.queryRunner
  ELSE Absent

\* options.manageTransaction ?? true
ManageTransactionOf(options) == options # "false"

\* constructor(runnerOrManager, options): the storage, or the error thrown.
constructor(runnerOrManager, options) ==
  LET thisRunner == RunnerOf(runnerOrManager)
      thisManager == ManagerOf(runnerOrManager)
      manage == ManageTransactionOf(options)
  IN IF ~thisRunner.query
       THEN [status |-> "throw", error |-> "QueryRunnerRequired", manageTransaction |-> manage]
     ELSE IF manage /\ ~getTransactionRunner(thisRunner, thisManager).present
       THEN [status |-> "throw", error |-> "ProtocolError", manageTransaction |-> manage]
     ELSE [status |-> "ok", error |-> "", manageTransaction |-> manage]

\* ----------------------------------------------------------------- state
VARIABLES
  given,             \* what the constructor was handed: runnerOrManager, options
  runner,            \* PgQueryRunner: client, isTransactionActive, pool
  db,                \* the database as seen through the runner's connection
  manageTransaction, \* TypeormLedgerStorage.manageTransaction
  pc,                \* position of the storage call in flight
  txn,               \* its argument
  ledgerId,          \* const { id: ledgerId }
  owns,              \* withTransaction started the transaction itself
  txId,              \* const { id: ledgerTransactionId }
  k,                 \* index of the entry of flatEntries() being handled
  ledgerAccountId,   \* const ledgerAccountId
  error,             \* the failure of the step that failed
  outcome,           \* what the call handed to its caller
  trace,             \* runner calls and writes the call made, in order
  atEntry,           \* runner and database when the call was entered
  calls,             \* number of storage calls so far
  posted,            \* the calls that inserted a transaction row, and
                     \* what became of the transaction they ran in
  readResult         \* result of the last storage call other than
                     \* insertTransaction, made after the last posting
                     \* or, by a second storage, while one runs

vars == << given, runner, db, manageTransaction, pc, txn, ledgerId, owns, txId, k,
           ledgerAccountId, error, outcome, trace, atEntry, calls, posted,
           readResult >>

NoRead ==
  [op |-> "none", arg |-> 0, of |-> "", status |-> "none", value |-> 0, text |-> ""]
Ev(op, i) == [op |-> op, i |-> i]
NoTxn == [ledgerSlug |-> "", transactionDoubleEntries |-> << >>]

InitRunner ==
  [client |-> FALSE, isTransactionActive |-> FALSE, poolEnded |-> FALSE]
InitDb ==
  [committed |-> [EmptyTables EXCEPT !.accounts = SeedAccounts,
                                     !.types = SeedAccountTypes,
                                     !.currencies = SeedCurrencies],
   pending |-> EmptyTables, tx |-> "none", broken |-> FALSE,
   nextTxId |-> 1, nextEntryId |-> 1, nextAcctId |-> 2, nextTypeId |-> 3,
   nextCurrencyId |-> 2]
NoEntry == [runner |-> InitRunner, db |-> InitDb]

\* new TypeormLedgerStorage(new PgQueryRunner(uri)), with the default
\* options or with manageTransaction false.
Init ==
  /\ manageTransaction \in BOOLEAN
  /\ given = [runnerOrManager |-> PgQueryRunnerLike,
              options |-> IF manageTransaction THEN "undefined" ELSE "false"]
  /\ runner = InitRunner
  /\ db = InitDb
  /\ pc = "idle"
  /\ txn = NoTxn
  /\ ledgerId = 0
  /\ owns = FALSE
  /\ txId = 0
  /\ k = 0
  /\ ledgerAccountId = 0
  /\ error = NoError
  /\ outcome = NoOutcome
  /\ trace = << >>
  /\ atEntry = NoEntry
  /\ calls = 0
  /\ posted = {}
  /\ readResult = NoRead

Quiet == pc \in {"idle", "done"}

Entries == flatEntries(txn.transactionDoubleEntries)

\* What the call leaves behind for the observer when it ends: the id of
\* the transaction row it inserted, whether it returned, and how it was
\* entered (standalone: the storage manages transactions and none was
\* active; pending: inside a transaction the caller had open).
PostedAfter(ok) ==
  IF txId = 0 THEN posted
  ELSE posted \cup
       {[id |-> txId, ok |-> ok, n |-> Len(Entries),
         standalone |-> manageTransaction /\ ~atEntry.runner.isTransactionActive,
         fate |-> IF atEntry.db.tx = "open" THEN "pending" ELSE "none"]}

\* The routine threw: the failure travels to the catch block of
\* withTransaction, or straight to the caller.
Fail(q, type, at) ==
  /\ runner' = q.r
  /\ db' = q.d
  /\ error' = Err(type, at)
  /\ pc' = "unwind"

\* ------------------------------------------------------ insertTransaction
Call(t) ==
  /\ Quiet
  /\ calls < MaxCalls
  /\ calls' = calls + 1
  /\ pc' = "getLedger"
  /\ txn' = t
  /\ ledgerId' = 0
  /\ owns' = FALSE
  /\ txId' = 0
  /\ k' = 0
  /\ ledgerAccountId' = 0
  /\ error' = NoError
  /\ outcome' = NoOutcome
  /\ trace' = << >>
  /\ atEntry' = [runner |-> runner, db |-> db]
  /\ readResult' = NoRead
  /\ UNCHANGED << runner, db, given, manageTransaction, posted >>

\* const { id: ledgerId } = await this.getLedgerIdBySlug(slug)
GetLedgerIdBySlug(f) ==
  /\ pc = "getLedger"
  /\ LET q == query(runner, db, f)
         rows == LedgerRows(txn.ledgerSlug)
     IN /\ runner' = q.r
        /\ db' = q.d
        /\ IF q.err # "none"
             THEN /\ error' = Err(q.err, "getLedger")
                  /\ outcome' = Thrown(error')
                  /\ pc' = "done"
                  /\ UNCHANGED ledgerId
           ELSE IF LedgerIsMissing(rows)
             THEN /\ error' = Err("LedgerNotFound", "getLedger")
                  /\ outcome' = Thrown(error')
                  /\ pc' = "done"
                  /\ UNCHANGED ledgerId
           ELSE /\ ledgerId' = IF rows = {} THEN 0 ELSE (CHOOSE row \in rows : TRUE).id
                /\ pc' = "withTransaction"
                /\ UNCHANGED << error, outcome >>
  /\ UNCHANGED << given, manageTransaction, txn, owns, txId, k, ledgerAccountId,
                  trace, atEntry, calls, posted, readResult >>

\* withTransaction up to the call of the routine.
WithTransaction(f) ==
  /\ pc = "withTransaction"
  /\ IF ~OwnsBoundary(manageTransaction, runner.isTransactionActive)
       THEN /\ pc' = "insertTx"
            /\ UNCHANGED << runner, db, owns, error, outcome, trace >>
       ELSE LET s == startTransaction(runner, db, f)
            IN /\ runner' = s.r
               /\ db' = s.d
               /\ trace' = Append(trace, Ev("startTransaction", 0))
               /\ IF s.err # "none"
                    THEN /\ error' = Err(s.err, "startTransaction")
                         /\ outcome' = Thrown(error')
                         /\ pc' = "done"
                         /\ UNCHANGED owns
                    ELSE /\ owns' = TRUE
                         /\ pc' = "insertTx"
                         /\ UNCHANGED << error, outcome >>
  /\ UNCHANGED << given, manageTransaction, txn, ledgerId, txId, k, ledgerAccountId,
                  atEntry, calls, posted, readResult >>

\* INSERT INTO ledger_transaction ... RETURNING id
InsertTransactionRow(f) ==
  /\ pc = "insertTx"
  /\ LET q == query(runner, db, f)
     IN IF q.err # "none"
          THEN /\ Fail(q, q.err, "insertTx")
               /\ UNCHANGED << txId, k, trace >>
          ELSE /\ runner' = q.r
               /\ db' = [WriteRows(q.d, [EmptyTables EXCEPT !.tx =
                            {[id |-> q.d.nextTxId, ledgerId |-> ledgerId]}])
                         EXCEPT !.nextTxId = @ + 1]
               /\ txId' = q.d.nextTxId
               /\ trace' = Append(trace, Ev("insertTransaction", 0))
               /\ k' = 1
               /\ pc' = IF Len(Entries) = 0 THEN "complete" ELSE "resolve"
               /\ UNCHANGED error
  /\ UNCHANGED << given, manageTransaction, txn, ledgerId, owns, ledgerAccountId,
                  outcome, atEntry, calls, posted, readResult >>

\* const ledgerAccountId = await this.resolveLedgerAccountId(ledgerId, entry.account)
ResolveLedgerAccountId(f) ==
  /\ pc = "resolve"
  /\ LET q == query(runner, db, f)
         account == EntryAt(Entries, k).account
         ent == EntityAccountId(q.d, EntityAccountArgs(account).name,
                                EntityAccountArgs(account).externalId)
         id == IF account.type = "SYSTEM"
                 THEN SystemAccountId(View(q.d), account.accountSlug)
                 ELSE ent.id
     IN IF q.err # "none"
          THEN /\ Fail(q, q.err, "resolve")
               /\ UNCHANGED << ledgerAccountId, trace >>
          ELSE /\ trace' = Append(trace, Ev("resolve", k))
               /\ IF AccountIsMissing(id)
                    THEN /\ Fail(q, "AccountNotFound", "resolve")
                         /\ UNCHANGED ledgerAccountId
                    ELSE /\ runner' = q.r
                         /\ db' = IF account.type = "SYSTEM" THEN q.d ELSE ent.d
                         /\ ledgerAccountId' = id
                         /\ pc' = "insertEntry"
                         /\ UNCHANGED error
  /\ UNCHANGED << given, manageTransaction, txn, ledgerId, owns, txId, k, outcome,
                  atEntry, calls, posted, readResult >>

\* INSERT INTO ledger_transaction_entry ...
InsertEntry(f) ==
  /\ pc = "insertEntry"
  /\ LET q == query(runner, db, f)
         entry == EntryAt(Entries, k)
     IN IF q.err # "none"
          THEN /\ Fail(q, q.err, "insertEntry")
               /\ UNCHANGED << k, trace >>
          ELSE /\ runner' = q.r
               /\ db' = [WriteRows(q.d, [EmptyTables EXCEPT !.entries =
                            {[id |-> q.d.nextEntryId, tx |-> txId,
                              account |-> ledgerAccountId,
                              action |-> entry.action, amount |-> entry.amount]}])
                         EXCEPT !.nextEntryId = @ + 1]
               /\ trace' = Append(trace, Ev("insertEntry", k))
               /\ k' = k + 1
               /\ pc' = IF k < Len(Entries) THEN "resolve" ELSE "complete"
               /\ UNCHANGED error
  /\ UNCHANGED << given, manageTransaction, txn, ledgerId, owns, txId, ledgerAccountId,
                  outcome, atEntry, calls, posted, readResult >>

\* The routine returned: commit when the boundary is this call's, return.
Complete(f) ==
  /\ pc = "complete"
  /\ IF CommitsOnSuccess(owns)
       THEN LET c == commitTransaction(runner, db, f)
            IN /\ runner' = c.r
               /\ db' = c.d
               /\ trace' = Append(trace, Ev("commitTransaction", 0))
               /\ IF c.err # "none"
                    THEN /\ error' = Err(c.err, "commitTransaction")
                         /\ pc' = "unwind"
                         /\ UNCHANGED << outcome, posted >>
                    ELSE /\ outcome' = Projection(txId, ledgerId)
                         /\ posted' = PostedAfter(TRUE)
                         /\ pc' = "done"
                         /\ UNCHANGED error
       ELSE /\ outcome' = Projection(txId, ledgerId)
            /\ posted' = PostedAfter(TRUE)
            /\ pc' = "done"
            /\ UNCHANGED << runner, db, trace, error >>
  /\ UNCHANGED << given, manageTransaction, txn, ledgerId, owns, txId, k,
                  ledgerAccountId, atEntry, calls, readResult >>

\* The routine or the commit threw: roll back when the boundary is this
\* call's, and throw.
Unwind(f) ==
  /\ pc = "unwind"
  /\ IF RollsBackOnFailure(owns)
       THEN LET b == rollbackTransaction(runner, db, f)
            IN /\ runner' = b.r
               /\ db' = b.d
               /\ trace' = Append(trace, Ev("rollbackTransaction", 0))
               /\ outcome' = Thrown(Rethrown(error, b.err))
               /\ posted' = PostedAfter(FALSE)
       ELSE /\ outcome' = Thrown(error)
            /\ posted' = PostedAfter(FALSE)
            /\ UNCHANGED << runner, db, trace >>
  /\ pc' = "done"
  /\ UNCHANGED << given, manageTransaction, txn, ledgerId, owns, txId, k,
                  ledgerAccountId, error, atEntry, calls, readResult >>

\* ------------------------------------------------- the caller of the runner
\* The call is over and its caller moves on: the locals of the call are
\* gone, what it returned or threw stays with the caller.
Forget ==
  /\ txn' = NoTxn
  /\ ledgerId' = 0
  /\ txId' = 0
  /\ k' = 0
  /\ ledgerAccountId' = 0
  /\ error' = NoError
  /\ trace' = << >>
  /\ atEntry' = NoEntry
  /\ UNCHANGED << given, manageTransaction, owns, outcome, calls >>

\* What a caller-side commit, rollback or release makes of the postings
\* that ran inside the caller's open transaction.
Settle(fate) ==
  { IF p.fate = "pending" THEN [p EXCEPT !.fate = fate] ELSE p : p \in posted }

\* await runner.startTransaction()
CallerStartTransaction(f) ==
  /\ Quiet
  /\ ~runner.isTransactionActive
  /\ LET s == startTransaction(runner, db, f)
     IN /\ runner' = s.r
        /\ db' = s.d
  /\ Forget
  /\ pc' = "idle"
  /\ readResult' = NoRead
  /\ UNCHANGED posted

\* await runner.commitTransaction()
CallerCommitTransaction(f) ==
  /\ Quiet
  /\ LET c == commitTransaction(runner, db, f)
     IN /\ runner' = c.r
        /\ db' = c.d
        /\ posted' = Settle(IF c.err = "none" /\ db.tx = "open"
                              THEN "committed" ELSE "lost")
  /\ Forget
  /\ pc' = "idle"
  /\ readResult' = NoRead

\* await runner.rollbackTransaction()
CallerRollbackTransaction(f) ==
  /\ Quiet
  /\ LET b == rollbackTransaction(runner, db, f)
     IN /\ runner' = b.r
        /\ db' = b.d
        /\ posted' = Settle("rolledBack")
  /\ Forget
  /\ pc' = "idle"
  /\ readResult' = NoRead

\* await storage.release(): the runner has a release(), which is awaited;
\* what it throws reaches the caller.
Release ==
  /\ Quiet
  /\ LET x == release(runner, db)
     IN /\ runner' = x.r
        /\ db' = x.d
        /\ posted' = Settle("lost")
        /\ readResult' = [NoRead EXCEPT !.op = "release",
                            !.status = IF x.err = "none" THEN "ok" ELSE "throw",
                            !.text = IF x.err = "none" THEN "" ELSE x.err]
  /\ Forget
  /\ pc' = "idle"

\* ---------------------------------------------------------------- reads
ReadOk(op, arg, of, value, text) ==
  [op |-> op, arg |-> arg, of |-> of, status |-> "ok", value |-> value, text |-> text]
ReadThrew(op, arg, of, type) ==
  [op |-> op, arg |-> arg, of |-> of, status |-> "throw", value |-> 0, text |-> type]

\* getTransactionById on a table view: the row, or TransactionNotFound.
TransactionById(t, id) ==
  IF TransactionRows(t, id) = {}
    THEN ReadThrew("getTransactionById", id, "", "TransactionNotFound")
    ELSE ReadOk("getTransactionById", id, "",
                (CHOOSE row \in TransactionRows(t, id) : TRUE).id, "")

\* storage.getTransactionById(id) on this storage and runner
GetTransactionById(id) ==
  /\ Quiet
  /\ LET q == query(runner, db, "ok")
     IN /\ runner' = q.r
        /\ db' = q.d
        /\ readResult' = IF q.err # "none"
                           THEN ReadThrew("getTransactionById", id, "", q.err)
                           ELSE TransactionById(View(q.d), id)
  /\ Forget
  /\ pc' = "read"
  /\ UNCHANGED posted

\* fetchAccountBalance resolving the reference the way insertTransaction
\* does, through ledger_account_id.
FetchAccountBalance_Resolving(account) ==
  /\ Quiet
  /\ LET op == "fetchAccountBalance"
         q == query(runner, db, "ok")
         ent == EntityAccountId(q.d, account.name, account.externalId)
         id == IF account.type = "SYSTEM"
                 THEN SystemAccountId(View(q.d), account.accountSlug)
                 ELSE ent.id
         d1 == IF account.type = "SYSTEM" \/ q.err # "none" THEN q.d ELSE ent.d
     IN /\ runner' = q.r
        /\ db' = d1
        /\ readResult' =
             IF q.err # "none" THEN ReadThrew(op, 0, account.accountSlug, q.err)
             ELSE IF id = 0
               THEN ReadThrew(op, 0, account.accountSlug, "AccountNotFound")
             ELSE ReadOk(op, id, account.accountSlug,
                         calculate_balance_for_ledger_account(View(d1), id),
                         UnitToString(calculate_balance_for_ledger_account(View(d1), id)))
  /\ Forget
  /\ pc' = "read"
  /\ UNCHANGED posted

\* storage.fetchAccountBalance(account) on this storage and runner:
\* getLedgerAccountId, the balance, the ledger and its currency.
FetchAccountBalance(account) ==
  /\ Quiet
  /\ LET op == "fetchAccountBalance"
         q == query(runner, db, "ok")
         rows == AccountRows(View(q.d), account.accountSlug)
         id == (CHOOSE row \in rows : TRUE).id
         amount == calculate_balance_for_ledger_account(View(q.d), id)
     IN /\ runner' = q.r
        /\ db' = q.d
        /\ readResult' =
             IF q.err # "none" THEN ReadThrew(op, 0, account.accountSlug, q.err)
             ELSE IF LedgerIsMissing(LedgerRows(account.ledgerSlug))
               THEN ReadThrew(op, 0, account.accountSlug, "LedgerNotFound")
             ELSE IF rows = {}
               THEN ReadThrew(op, 0, account.accountSlug, "AccountNotFound")
             ELSE ReadOk(op, id, account.accountSlug, amount, UnitToString(amount))
  /\ Forget
  /\ pc' = "read"
  /\ UNCHANGED posted

\* The caller has looked at what the read returned and goes on.
Continue ==
  /\ pc = "read"
  /\ pc' = "idle"
  /\ readResult' = NoRead
  /\ UNCHANGED << runner, db, given, manageTransaction, txn, ledgerId, owns, txId, k,
                  ledgerAccountId, error, outcome, trace, atEntry, calls, posted >>

\* ------------------------------------------------------------ specification
Next ==
  \/ \E t \in Transactions : Call(t)
  \/ \E f \in Faults : GetLedgerIdBySlug(f)
  \/ \E f \in ConnFaults : WithTransaction(f)
  \/ \E f \in Faults : InsertTransactionRow(f)
  \/ \E f \in Faults : ResolveLedgerAccountId(f)
  \/ \E f \in Faults : InsertEntry(f)
  \/ \E f \in Faults : Complete(f)
  \/ \E f \in ConnFaults : Unwind(f)
  \/ \E f \in ConnFaults : CallerStartTransaction(f)
  \/ \E f \in Faults : CallerCommitTransaction(f)
  \/ \E f \in ConnFaults : CallerRollbackTransaction(f)
  \/ Release
  \/ \E id \in 1..MaxCalls : GetTransactionById(id)
  \/ \E a \in Refs : FetchAccountBalance(a)
  \/ Continue

Spec == Init /\ [][Next]_vars

\* ------------------------------------------- construction and registration
MaxOps == 2

\* new TypeormLedgerStorage(runnerOrManager, options).  The storage is
\* operated further when it was built on the PgQueryRunner.
Construct ==
  /\ pc = "new"
  /\ LET c == constructor(given.runnerOrManager, given.options)
     IN /\ manageTransaction' = c.manageTransaction
        /\ IF c.status = "throw"
             THEN /\ pc' = "rejected"
                  /\ readResult' = ReadThrew("new", 0, "", c.error)
             ELSE /\ pc' = IF given.runnerOrManager = PgQueryRunnerLike
                             THEN "idle" ELSE "built"
                  /\ readResult' = ReadOk("new", 0, "", 0, "")
  /\ UNCHANGED << given, runner, db, txn, ledgerId, owns, txId, k,
                  ledgerAccountId, error, outcome, trace, atEntry, calls, posted >>

\* What is asked of the registry.
TypeSlugs == {"SYSTEM_INCOME", "USER_RECEIVABLES", "SYSTEM_EXPENSES"}
NormalBalances == {"DEBIT", "CREDIT"}
\* parentLedgerAccountTypeId: null (0), the seeded SYSTEM_INCOME, or the
\* id the first inserted account type gets.
ParentIds == {0, 1, 3}
\* Root types of every slug, and children under the one new slug: of
\* either balance under the seeded type, of its balance under the new one.
AccountTypeInputs ==
  { input \in [slug : TypeSlugs, normalBalance : NormalBalances,
               isEntityLedgerAccount : BOOLEAN,
               parentLedgerAccountTypeId : ParentIds] :
      IF input.parentLedgerAccountTypeId = 0
        THEN input.normalBalance = "CREDIT"
        ELSE /\ input.slug = "SYSTEM_EXPENSES"
             /\ input.normalBalance = "DEBIT" =>
                  (input.parentLedgerAccountTypeId = 1
                     /\ ~input.isEntityLedgerAccount) }
AccountSlugs == {"SYSTEM_INCOME_PAID_PROJECTS", "SYSTEM_INCOME_PAYMENT_FEE"}
LedgerIds == {1, 2, 3}
\* Accounts of the seeded type in every ledger, and the new slug under the
\* other types in the seeded ledger.
AccountInputs ==
  { input \in [ledgerAccountTypeId : {1, 2, 3}, ledgerId : LedgerIds,
               slug : AccountSlugs] :
      /\ input.ledgerId = 2 => input.slug = "SYSTEM_INCOME_PAID_PROJECTS"
      /\ input.ledgerId = 3 => input.slug = "SYSTEM_INCOME_PAYMENT_FEE"
      /\ input.ledgerAccountTypeId # 1 =>
           (input.ledgerId = 1 /\ input.slug = "SYSTEM_INCOME_PAYMENT_FEE") }

\* The one query of the call that goes wrong, if any: a query that fails
\* ends the call, so at most one does.
FaultsAt ==
  {[at |-> 0, kind |-> "ok"]}
    \cup { [at |-> i, kind |-> kd] : i \in 1..3, kd \in {"stmt", "conn"} }
FaultOf(fa, i) == IF fa.at = i THEN fa.kind ELSE "ok"

\* An INSERT can also be refused for its primary key, when the id sequence
\* of the table is behind its rows ("pkey").
InsertFaults == Faults \cup {"pkey"}
InsertAccountFaultsAt ==
  { fa \in FaultsAt : fa.at <= 2 } \cup {[at |-> 2, kind |-> "pkey"]}

\* What a storage call hands back: the runner and database afterwards and
\* the value returned or the error thrown.
Back(r, d, res) == [r |-> r, d |-> d, res |-> res]

NoType ==
  [id |-> 0, slug |-> "", normalBalance |-> "", isEntityLedgerAccount |-> FALSE,
   parentLedgerAccountTypeId |-> 0]

\* SELECT ... FROM ledger_account_type WHERE slug = $1
TypeRowsBySlug(t, slug) == { lat \in t.types : lat.slug = slug }

\* SELECT ... FROM ledger_account_type WHERE id = $1
TypeRowsById(t, id) == { lat \in t.types : lat.id = id }

maybeOne_One(rows, null) ==
  IF Cardinality(rows) = 1
    THEN [err |-> "none", row |-> CHOOSE row \in rows : TRUE]
    ELSE [err |-> "ExpectedOneRow", row |-> null]

\* maybeOne: null for no row, the row for one, an error for more.
maybeOne(rows, null) ==
  IF Cardinality(rows) = 0 THEN [err |-> "none", row |-> null]
  ELSE IF Cardinality(rows) > 1 THEN [err |-> "ExpectedAtMostOneRow", row |-> null]
  ELSE [err |-> "none", row |-> CHOOSE row \in rows : TRUE]

\* findAccountTypeBySlug(slug): [r, d, err, row], row = NoType for null.
findAccountTypeBySlug(r, d, slug, f) ==
  LET q == query(r, d, f)
      m == maybeOne(TypeRowsBySlug(View(q.d), slug), NoType)
  IN IF q.err # "none" THEN [r |-> q.r, d |-> q.d, err |-> q.err, row |-> NoType]
     ELSE [r |-> q.r, d |-> q.d, err |-> m.err, row |-> m.row]

\* getSavedAccountTypeById(id): throws when there is no row.
getSavedAccountTypeById(r, d, id, f) ==
  LET q == query(r, d, f)
      m == maybeOne(TypeRowsById(View(q.d), id), NoType)
  IN IF q.err # "none" THEN [r |-> q.r, d |-> q.d, err |-> q.err, row |-> NoType]
     ELSE IF m.err # "none" THEN [r |-> q.r, d |-> q.d, err |-> m.err, row |-> NoType]
     ELSE IF m.row = NoType
       THEN [r |-> q.r, d |-> q.d, err |-> "AccountTypeNotFound", row |-> NoType]
     ELSE [r |-> q.r, d |-> q.d, err |-> "none", row |-> m.row]

\* insertAccountType: `existingAccount && !existingAccount.isEntityLedgerAccount`
TypeAlreadyExists(existingAccount) ==
  existingAccount # NoType /\ ~existingAccount.isEntityLedgerAccount

\* insertAccountType: `if (parentLedgerAccountTypeId)`
HasParent(parentLedgerAccountTypeId) == parentLedgerAccountTypeId # 0

NormalBalanceDiffers_Never(parentBalance, normalBalance) == FALSE

\* insertAccountType: `parentAccount.normalBalance !== normalBalance`
NormalBalanceDiffers(parentBalance, normalBalance) == parentBalance # normalBalance

\* The uniqueness constraint of the schema on account type slugs: it
\* covers the non-entity types.
TypeSlugTaken(t, input) ==
  /\ ~input.isEntityLedgerAccount
  /\ \E lat \in TypeRowsBySlug(t, input.slug) : ~lat.isEntityLedgerAccount

\* A statement the server rejects: it aborts the open transaction.
Rejected(d) == [d EXCEPT !.tx = IF @ = "open" THEN "aborted" ELSE @]

\* INSERT INTO ledger_account_type ... RETURNING id
InsertAccountTypeRow(r, d, input, f) ==
  LET q == query(r, d, f)
      op == "insertAccountType"
  IN IF q.err # "none"
       THEN Back(q.r, q.d, ReadThrew(op, 0, input.slug, q.err))
     ELSE IF TypeSlugTaken(View(q.d), input)
       THEN Back(q.r, Rejected(q.d), ReadThrew(op, 0, input.slug, "UniqueViolation"))
     ELSE Back(q.r,
               [WriteRows(q.d, [EmptyTables EXCEPT !.types =
                   {[id |-> q.d.nextTypeId, slug |-> input.slug,
                     normalBalance |-> input.normalBalance,
                     isEntityLedgerAccount |-> input.isEntityLedgerAccount,
                     parentLedgerAccountTypeId |-> input.parentLedgerAccountTypeId]}])
                EXCEPT !.nextTypeId = @ + 1],
               ReadOk(op, q.d.nextTypeId, input.slug, 0, ""))

\* insertAccountType(input)
insertAccountType(r, d, input, fa) ==
  LET op == "insertAccountType"
      existing == findAccountTypeBySlug(r, d, input.slug, FaultOf(fa, 1))
      parent == getSavedAccountTypeById(existing.r, existing.d,
                                        input.parentLedgerAccountTypeId, FaultOf(fa, 2))
  IN IF existing.err # "none"
       THEN Back(existing.r, existing.d, ReadThrew(op, 0, input.slug, existing.err))
     ELSE IF TypeAlreadyExists(existing.row)
       THEN Back(existing.r, existing.d,
                 ReadThrew(op, 0, input.slug, "AccountTypeAlreadyExists"))
     ELSE IF ~HasParent(input.parentLedgerAccountTypeId)
       THEN InsertAccountTypeRow(existing.r, existing.d, input, FaultOf(fa, 2))
     ELSE IF parent.err # "none"
       THEN Back(parent.r, parent.d, ReadThrew(op, 0, input.slug, parent.err))
     ELSE IF parent.row = NoType
       THEN Back(parent.r, parent.d,
                 ReadThrew(op, 0, input.slug, "ParentAccountTypeNotFound"))
     ELSE IF NormalBalanceDiffers(parent.row.normalBalance, input.normalBalance)
       THEN Back(parent.r, parent.d,
                 ReadThrew(op, 0, input.slug, "NormalBalanceMismatch"))
     ELSE InsertAccountTypeRow(parent.r, parent.d, input, FaultOf(fa, 3))

\* A registry call or lookup is made and is over: its argument, the runner
\* and database it was entered with, and what it handed back.
Registry(input, x) ==
  /\ Quiet
  /\ calls < MaxOps
  /\ calls' = calls + 1
  /\ pc' = "done"
  /\ txn' = input
  /\ atEntry' = [runner |-> runner, db |-> db]
  /\ runner' = x.r
  /\ db' = x.d
  /\ readResult' = x.res
  /\ UNCHANGED << given, manageTransaction, ledgerId, owns, txId, k,
                  ledgerAccountId, error, outcome, trace, posted >>

\* await storage.insertAccountType(input)
InsertAccountType(input, fa) ==
  Registry(input, insertAccountType(runner, db, input, fa))

\* An error of the driver: pg's DatabaseError carries the SQLSTATE code and
\* the violated constraint itself; other errors have neither ("").
PgError(name, code, constraint) ==
  [name |-> name, code |-> code, constraint |-> constraint]
NoPgError == PgError("none", "", "")

ConstraintDiffers_Never(constraint, errorConstraint) == FALSE

\* isUniqueViolation: `constraint && errorConstraint && constraint !==
\* errorConstraint`
ConstraintDiffers(constraint, errorConstraint) ==
  /\ constraint # ""
  /\ errorConstraint # ""
  /\ constraint # errorConstraint

isUniqueViolation_Never(maybeError, constraint) == FALSE

\* isUniqueViolation(error, constraint)
isUniqueViolation(maybeError, constraint) ==
  IF maybeError.code # "23505" THEN FALSE
  ELSE IF ConstraintDiffers(constraint, maybeError.constraint) THEN FALSE
  ELSE TRUE

\* The uniqueness constraint of the schema on account slugs: one account per
\* ledger and slug.
AccountSlugTaken(t, input) == AccountRowsIn(t, input.ledgerId, input.slug) # {}

\* ledger_account.ledger_id references a ledger.
LedgerExists(id) == \E l \in Ledgers : l.id = id

\* INSERT INTO ledger_account ... RETURNING id: [r, d, error, id]
InsertAccountRow(r, d, input, ledgerAccountTypeId, f) ==
  LET q == query(r, d, f) IN
  IF q.err # "none"
    THEN [r |-> q.r, d |-> q.d, error |-> PgError(q.err, "", ""), id |-> 0]
  ELSE IF f = "pkey"
    THEN [r |-> q.r, d |-> Rejected(q.d),
          error |-> PgError("PrimaryKeyViolation", "23505", "ledger_account_pkey"),
          id |-> 0]
  ELSE IF AccountSlugTaken(View(q.d), input)
    THEN [r |-> q.r, d |-> Rejected(q.d),
          error |-> PgError("UniqueViolation", "23505", "ledger_account_slug_idx"),
          id |-> 0]
  ELSE IF ~LedgerExists(input.ledgerId)
    THEN [r |-> q.r, d |-> Rejected(q.d),
          error |-> PgError("ForeignKeyViolation", "23503",
                            "ledger_account_ledger_id_fkey"),
          id |-> 0]
  ELSE [r |-> q.r,
        d |-> [WriteRows(q.d, [EmptyTables EXCEPT !.accounts =
                 {[id |-> q.d.nextAcctId, slug |-> input.slug,
                   ledgerAccountTypeId |-> ledgerAccountTypeId,
                   ledgerId |-> input.ledgerId]}])
               EXCEPT !.nextAcctId = @ + 1],
        error |-> NoPgError, id |-> q.d.nextAcctId]

\* insertAccount(input)
insertAccount(r, d, input, fa) ==
  LET op == "insertAccount"
      accountType == getSavedAccountTypeById(r, d, input.ledgerAccountTypeId,
                                             FaultOf(fa, 1))
      ins == InsertAccountRow(accountType.r, accountType.d, input,
                              accountType.row.id, FaultOf(fa, 2))
  IN IF accountType.err # "none"
       THEN Back(accountType.r, accountType.d,
                 ReadThrew(op, input.ledgerId, input.slug, accountType.err))
     ELSE IF ins.error = NoPgError
       THEN Back(ins.r, ins.d, ReadOk(op, input.ledgerId, input.slug, ins.id, ""))
     ELSE IF isUniqueViolation(ins.error, "ledger_account_slug_idx")
       THEN Back(ins.r, ins.d,
                 ReadThrew(op, input.ledgerId, input.slug, "DuplicateAccountSlug"))
     ELSE Back(ins.r, ins.d, ReadThrew(op, input.ledgerId, input.slug, ins.error.name))

\* await storage.insertAccount(input)
InsertAccount(input, fa) ==
  Registry(input, insertAccount(runner, db, input, fa))

\* SELECT ... FROM ledger_currency WHERE code = $1
CurrencyRows(t, code) == { lc \in t.currencies : lc.code = code }

\* The uniqueness constraint of the schema on currency codes.
CurrencyCodeTaken(t, input) == CurrencyRows(t, input.code) # {}

CurrencyInputs == [code : {"USD", "EUR"}]

\* INSERT INTO ledger_currency ... RETURNING id: [r, d, error, id]
InsertCurrencyRow(r, d, input, f) ==
  LET q == query(r, d, f) IN
  IF q.err # "none"
    THEN [r |-> q.r, d |-> q.d, error |-> PgError(q.err, "", ""), id |-> 0]
  ELSE IF f = "pkey"
    THEN [r |-> q.r, d |-> Rejected(q.d),
          error |-> PgError("PrimaryKeyViolation", "23505", "ledger_currency_pkey"),
          id |-> 0]
  ELSE IF CurrencyCodeTaken(View(q.d), input)
    THEN [r |-> q.r, d |-> Rejected(q.d),
          error |-> PgError("UniqueViolation", "23505", "ledger_currency_code_idx"),
          id |-> 0]
  ELSE [r |-> q.r,
        d |-> [WriteRows(q.d, [EmptyTables EXCEPT !.currencies =
                 {[id |-> q.d.nextCurrencyId, code |-> input.code]}])
               EXCEPT !.nextCurrencyId = @ + 1],
        error |-> NoPgError, id |-> q.d.nextCurrencyId]

\* insertCurrency(parameters)
insertCurrency(r, d, input, f) ==
  LET op == "insertCurrency"
      ins == InsertCurrencyRow(r, d, input, f)
  IN IF ins.error = NoPgError
       THEN Back(ins.r, ins.d, ReadOk(op, 0, input.code, ins.id, ""))
     ELSE IF isUniqueViolation(ins.error, "ledger_currency_code_idx")
       THEN Back(ins.r, ins.d, ReadThrew(op, 0, input.code, "DuplicateCurrencyCode"))
     ELSE Back(ins.r, ins.d, ReadThrew(op, 0, input.code, ins.error.name))

\* await storage.insertCurrency(parameters)
InsertCurrency(input, f) ==
  Registry(input, insertCurrency(runner, db, input, f))

\* ---- lookups
\* The references looked up: those of the postings, and the seeded slug in
\* the other ledger and in a ledger that does not exist.
FindRefs ==
  Refs \cup
    { [SystemAccountRef("SYSTEM_INCOME_PAID_PROJECTS") EXCEPT !.ledgerSlug = slug] :
        slug \in {OtherLedger.slug, UnknownLedgerSlug} }
FindTypeSlugs == [slug : TypeSlugs]
FindLedgerIds == [ledgerId : {SeedLedger.id, OtherLedger.id}]

NoAccount == [id |-> 0, slug |-> "", ledgerAccountTypeId |-> 0, ledgerId |-> 0]

\* findAccount: WHERE la.slug = $1 AND la.ledger_id = (SELECT l.id FROM
\* ledger l WHERE l.slug = $2)
AccountRowsOf(t, account) ==
  { la \in t.accounts :
      /\ la.slug = account.accountSlug
      /\ \E l \in LedgerRows(account.ledgerSlug) : la.ledgerId = l.id }

\* findAccount(account): the account, or null (id 0).
findAccount(r, d, account, f) ==
  LET op == "findAccount"
      q == query(r, d, f)
      m == maybeOne(AccountRowsOf(View(q.d), account), NoAccount)
  IN IF q.err # "none" THEN Back(q.r, q.d, ReadThrew(op, 0, account.accountSlug, q.err))
     ELSE IF m.err # "none"
       THEN Back(q.r, q.d, ReadThrew(op, 0, account.accountSlug, m.err))
     ELSE Back(q.r, q.d, ReadOk(op, 0, account.accountSlug, m.row.id, ""))

\* findAccountTypeBySlug(slug) as a call of its own: the type, or null (id 0).
FoundAccountType(slug, x) ==
  Back(x.r, x.d,
       IF x.err # "none" THEN ReadThrew("findAccountTypeBySlug", 0, slug, x.err)
       ELSE ReadOk("findAccountTypeBySlug", 0, slug, x.row.id, ""))

\* any(): the rows of one SELECT; the call returns how many there are.
any(r, d, op, parameter, rows, f) ==
  LET q == query(r, d, f) IN
  IF q.err # "none" THEN Back(q.r, q.d, ReadThrew(op, parameter, "", q.err))
  ELSE Back(q.r, q.d, ReadOk(op, parameter, "", Cardinality(rows), ""))

\* await storage.findAccount(account)
FindAccount(account, f) ==
  Registry(account, findAccount(runner, db, account, f))

\* await storage.findAccountTypeBySlug(slug)
FindAccountTypeBySlug(input, f) ==
  Registry(input, FoundAccountType(input.slug,
                     findAccountTypeBySlug(runner, db, input.slug, f)))

\* await storage.findEntityAccountTypes(ledgerId)
FindEntityAccountTypes(input, f) ==
  Registry(input, any(runner, db, "findEntityAccountTypes", input.ledgerId,
                      findEntityAccountTypes(View(db), input.ledgerId), f))

\* await storage.findSystemAccounts(ledgerId)
FindSystemAccounts(input, f) ==
  Registry(input, any(runner, db, "findSystemAccounts", input.ledgerId,
                      findSystemAccounts(View(db), input.ledgerId), f))

\* Before the constructor runs: anything may be handed to it.
RegistryInit ==
  /\ given \in [runnerOrManager : RunnerOrManagers, options : Options]
  /\ manageTransaction = FALSE
  /\ runner = InitRunner
  /\ db = InitDb
  /\ pc = "new"
  /\ txn = NoTxn
  /\ ledgerId = 0
  /\ owns = FALSE
  /\ txId = 0
  /\ k = 0
  /\ ledgerAccountId = 0
  /\ error = NoError
  /\ outcome = NoOutcome
  /\ trace = << >>
  /\ atEntry = NoEntry
  /\ calls = 0
  /\ posted = {}
  /\ readResult = NoRead

RegistryNext ==
  \/ Construct
  \/ \E input \in AccountTypeInputs, fa \in FaultsAt : InsertAccountType(input, fa)
  \/ \E input \in AccountInputs, fa \in InsertAccountFaultsAt :
       InsertAccount(input, fa)
  \/ \E input \in CurrencyInputs, f \in InsertFaults : InsertCurrency(input, f)
  \/ \E account \in FindRefs, f \in Faults : FindAccount(account, f)
  \/ \E input \in FindTypeSlugs, f \in Faults : FindAccountTypeBySlug(input, f)
  \/ \E input \in FindLedgerIds, f \in Faults : FindEntityAccountTypes(input, f)
  \/ \E input \in FindLedgerIds, f \in Faults : FindSystemAccounts(input, f)
  \/ \E f \in ConnFaults : CallerStartTransaction(f)
  \/ \E f \in Faults : CallerCommitTransaction(f)
  \/ \E f \in ConnFaults : CallerRollbackTransaction(f)
  \/ Release

RegistrySpec == RegistryInit /\ [][RegistryNext]_vars

\* ------------------------------------------------------ account references
\* Names and external ids as the constructors see them: strings are
\* sequences of characters.
MaxNameLen == 3
MaxIdLen == 2

\* One character of each kind the patterns tell apart: an ASCII letter, a
\* letter outside ASCII, a digit, the underscore, the hyphen, the colon,
\* white space, another special character.
NameChars == {"A", "é", "7", "_", "-", ":", " ", "!"}
IdChars == {"a", "7", ":", " "}
Digits == {"0", "1", "2", "3", "4", "5", "6", "7", "8", "9"}

Strings(chars, n) == UNION { [1..m -> chars] : m \in 0..n }
Names == Strings(NameChars, MaxNameLen)

\* EntityExternalId: a number (finite, or NaN / Infinity) or a string.
NumberId(number) ==
  [type |-> "number", finite |-> TRUE, number |-> number, string |-> << >>]
NotFinite == [type |-> "number", finite |-> FALSE, number |-> 0, string |-> << >>]
StringId(string) ==
  [type |-> "string", finite |-> FALSE, number |-> 0, string |-> string]
ExternalIds ==
  { NumberId(n) : n \in {-1, 0, 7, 10} }
    \cup { [NotFinite EXCEPT !.number = n] : n \in {0, 1} }
    \cup { StringId(string) : string \in Strings(IdChars, MaxIdLen) }

\* \p{L}, \d, \w and \s under the u flag: \w and \d are ASCII.
IsLetter(c) == c \in {"A", "a", "é"}
IsDigit(c) == c \in Digits
IsWord(c) == c \in {"A", "a", "_"} \cup Digits
IsSpace(c) == c = " "

VALID_NAME_REGEX_NoEnd(name) ==
  /\ Len(name) >= 1
  /\ IsLetter(name[1]) \/ IsDigit(name[1])
  /\ \A i \in 2..Len(name) : IsWord(name[i])

\* /^[\p{L}\d]\w*[\p{L}\d]$/u
VALID_NAME_REGEX(name) ==
  /\ Len(name) >= 2
  /\ IsLetter(name[1]) \/ IsDigit(name[1])
  /\ \A i \in 2..(Len(name) - 1) : IsWord(name[i])
  /\ IsLetter(name[Len(name)]) \/ IsDigit(name[Len(name)])

validateName_EmptyOnly(name) ==
  IF name = << >> THEN "AccountNameEmpty" ELSE "none"

\* validateName(name): the error it throws, "none" when it returns.
validateName(name) ==
  IF name = << >> THEN "AccountNameEmpty"
  ELSE IF ~VALID_NAME_REGEX(name) THEN "AccountNameInvalid"
  ELSE "none"

\* String(number) of an integer: its decimal digits, with the sign.
RECURSIVE DecimalOf(_)
DecimalOf(n) ==
  LET digit == <<"0", "1", "2", "3", "4", "5", "6", "7", "8", "9">>[(n % 10) + 1]
  IN IF n < 10 THEN << digit >> ELSE DecimalOf(n \div 10) \o << digit >>

\* String(externalId)
StringOf(externalId) ==
  IF externalId.type = "string" THEN externalId.string
  ELSE IF ~externalId.finite
    THEN IF externalId.number = 0 THEN <<"N", "a", "N">>
         ELSE <<"I", "n", "f", "i", "n", "i", "t", "y">>
  ELSE IF externalId.number < 0 THEN <<"-">> \o DecimalOf(0 - externalId.number)
  ELSE DecimalOf(externalId.number)

\* String.prototype.trim()
RECURSIVE trimStart(_)
trimStart(string) ==
  IF string # << >> /\ IsSpace(Head(string)) THEN trimStart(Tail(string)) ELSE string
RECURSIVE trimEnd(_)
trimEnd(string) ==
  IF string # << >> /\ IsSpace(string[Len(string)])
    THEN trimEnd(SubSeq(string, 1, Len(string) - 1))
    ELSE string
trim(string) == trimEnd(trimStart(string))

\* /[:\s]/u.test(externalId)
HasColonOrSpace(string) ==
  \E i \in 1..Len(string) : string[i] = ":" \/ IsSpace(string[i])

\* normalizeExternalId(externalId): the error it throws, "none" when it
\* returns; what it returns is externalId itself.
normalizeExternalId(externalId) ==
  IF externalId.type = "number"
    THEN IF ~externalId.finite THEN "InvalidExternalId" ELSE "none"
  ELSE IF externalId.type # "string" THEN "InvalidExternalId"
  ELSE IF trim(externalId.string) = << >> THEN "InvalidExternalId"
  ELSE IF HasColonOrSpace(externalId.string) THEN "InvalidExternalId"
  ELSE "none"

\* What `new ...AccountRef(...)` gives: the reference, or the error thrown.
NoRef == [type |-> "", name |-> << >>, externalId |-> NotFinite, accountSlug |-> << >>]
RefThrew(op, type) == [op |-> op, status |-> "throw", error |-> type, ref |-> NoRef]
RefBuilt(op, ref) == [op |-> op, status |-> "ok", error |-> "", ref |-> ref]

\* new SystemAccountRef(ledgerSlug, name)
NewSystemAccountRef(name) ==
  IF validateName(name) # "none"
    THEN RefThrew("SystemAccountRef", validateName(name))
    ELSE RefBuilt("SystemAccountRef",
                  [type |-> "SYSTEM", name |-> name, externalId |-> NotFinite,
                   accountSlug |-> name])

\* new EntityAccountRef(ledgerSlug, name, externalId)
NewEntityAccountRef(name, externalId) ==
  IF validateName(name) # "none"
    THEN RefThrew("EntityAccountRef", validateName(name))
  ELSE IF normalizeExternalId(externalId) # "none"
    THEN RefThrew("EntityAccountRef", normalizeExternalId(externalId))
  ELSE RefBuilt("EntityAccountRef",
                [type |-> "ENTITY", name |-> name, externalId |-> externalId,
                 accountSlug |-> name \o <<ACCOUNT_SLUG_SEPARATOR>>
                                      \o StringOf(externalId)])

\* A constructor is called on what was given.
Constructed(result) ==
  /\ pc = "new"
  /\ pc' = "done"
  /\ outcome' = result
  /\ UNCHANGED << given, runner, db, manageTransaction, txn, ledgerId, owns, txId,
                  k, ledgerAccountId, error, trace, atEntry, calls, posted,
                  readResult >>

ConstructSystemAccountRef == Constructed(NewSystemAccountRef(given.name))
ConstructEntityAccountRef ==
  Constructed(NewEntityAccountRef(given.name, given.externalId))

\* Any name and any external id may be handed to the constructors.
RefInit ==
  /\ given \in [name : Names, externalId : ExternalIds]
  /\ manageTransaction = FALSE
  /\ runner = InitRunner
  /\ db = InitDb
  /\ pc = "new"
  /\ txn = NoTxn
  /\ ledgerId = 0
  /\ owns = FALSE
  /\ txId = 0
  /\ k = 0
  /\ ledgerAccountId = 0
  /\ error = NoError
  /\ outcome = NoOutcome
  /\ trace = << >>
  /\ atEntry = NoEntry
  /\ calls = 0
  /\ posted = {}
  /\ readResult = NoRead

RefNext == ConstructSystemAccountRef \/ ConstructEntityAccountRef

RefSpec == RefInit /\ [][RefNext]_vars

\* ------------------------------------------------------------ observation
RunnerCalls == {"startTransaction", "commitTransaction", "rollbackTransaction"}

CountOf(op) == Cardinality({ i \in 1..Len(trace) : trace[i].op = op })

\* The call in flight was entered with a transaction active on the runner.
ActiveAtEntry == atEntry.runner.isTransactionActive

\* The rows of transaction id that a read of table view t finds.
Visible(t, id) == TransactionRows(t, id) # {} \/ EntryRows(t, id) # {}

\* ------------------------------------------------------------------ claims

\* C1: atomicity.  A call that was entered standalone (the storage manages
\* transactions, none active on the runner), inserted its transaction row
\* and then threw has left no ledger_transaction row and no
\* ledger_transaction_entry row of that transaction, neither committed nor
\* readable on the runner's own connection, in any later state.
C1_Atomicity ==
  \A p \in posted :
    (p.standalone /\ ~p.ok) =>
      /\ ~Visible(db.committed, p.id)
      /\ ~Visible(View(db), p.id)

\* An owned posting wrote the transaction row and the row of its first
\* entry, failed to resolve a later system account, and has thrown.
C1_Witness ==
  /\ pc = "done"
  /\ manageTransaction /\ ~ActiveAtEntry
  /\ error = Err("AccountNotFound", "resolve")
  /\ k >= 2
  /\ \E p \in posted : p.id = txId /\ p.standalone /\ ~p.ok

\* C2: participation.  For a posting that returned inside a transaction the
\* caller had open on the runner: once the caller has rolled back, neither
\* its transaction row nor any entry row is visible and getTransactionById
\* of the returned id is not-found; once the caller's commit has taken
\* effect, the transaction row and all n entry rows are committed.
C2_Participation ==
  \A p \in posted :
    (p.ok /\ ~p.standalone) =>
      /\ p.fate = "rolledBack" =>
           /\ ~Visible(db.committed, p.id)
           /\ ~Visible(View(db), p.id)
           /\ TransactionById(db.committed, p.id).text = "TransactionNotFound"
      /\ p.fate = "committed" =>
           /\ TransactionById(db.committed, p.id).status = "ok"
           /\ Cardinality(EntryRows(db.committed, p.id)) = p.n

\* The storage manages transactions, the caller began one on the runner,
\* the posting returned, and the caller rolled back.
C2_Witness ==
  /\ manageTransaction
  /\ \E p \in posted : p.ok /\ ~p.standalone /\ p.fate = "rolledBack" /\ p.n >= 2

\* The same posting, with the caller's commit instead.
C2_WitnessCommit ==
  \E p \in posted : p.ok /\ ~p.standalone /\ p.fate = "committed" /\ p.n >= 2

\* C3: nesting.  Throughout a call entered with a transaction active on
\* the runner, and when it has returned or thrown, the storage has called
\* none of startTransaction, commitTransaction, rollbackTransaction, and
\* the runner's transaction is still active.
C3_Nesting ==
  (pc # "idle" /\ ActiveAtEntry) =>
    /\ \A i \in 1..Len(trace) : trace[i].op \notin RunnerCalls
    /\ runner.isTransactionActive
    /\ ~owns

\* A storage that manages transactions was entered inside the caller's
\* transaction, wrote its rows and is back.
C3_Witness ==
  /\ pc = "done"
  /\ manageTransaction /\ ActiveAtEntry
  /\ txId # 0
  /\ Len(trace) >= 3

\* C4: a failure inside the boundary the call owns.  When a call that
\* started the transaction itself is over and one of its steps (the
\* transaction row, a resolution, an entry row, the commit) had failed,
\* rollbackTransaction was the last thing it called, it called it once,
\* and the call threw: it returned no projection.
C4_RollbackThenThrow ==
  (pc = "done" /\ owns /\ error # NoError) =>
    /\ outcome.status = "throw"
    /\ CountOf("rollbackTransaction") = 1
    /\ trace[Len(trace)].op = "rollbackTransaction"

\* The commit of an owned posting failed.
C4_Witness ==
  /\ pc = "done"
  /\ owns
  /\ error.at = "commitTransaction"
  /\ outcome.status = "throw"

\* C5: the failure the caller receives from a call that owns the boundary
\* is the failure of the step that failed.
C5_OriginalFailure ==
  (pc = "done" /\ owns /\ error # NoError) => outcome.error = error

\* C6: a failure without the boundary.  When a call entered with
\* manageTransaction false or with a transaction active has thrown, it
\* called no rollbackTransaction (nor start, nor commit), the runner's
\* transaction is as active as it was at entry, and the caller has the
\* failure of the step that failed.
C6_OwnerDecides ==
  (pc = "done" /\ error # NoError /\ (~manageTransaction \/ ActiveAtEntry)) =>
    /\ \A i \in 1..Len(trace) : trace[i].op \notin RunnerCalls
    /\ runner.isTransactionActive = ActiveAtEntry
    /\ outcome = Thrown(error)

\* Inside the caller's transaction a resolution failed after rows were
\* written; the caller's transaction is open and holds the partial posting.
C6_Witness ==
  /\ pc = "done"
  /\ ActiveAtEntry
  /\ error = Err("AccountNotFound", "resolve")
  /\ db.tx = "open"
  /\ runner.isTransactionActive
  /\ TransactionRows(db.pending, txId) # {}

\* C7: after a posting that started and committed its own transaction has
\* returned, a read on the same storage and runner succeeds:
\* getTransactionById of the returned id returns that transaction, and
\* fetchAccountBalance of the debited entity account returns its balance,
\* "100.00" when the posting was one double entry of 100.00.
C7_UsableAfterCommit ==
  (owns /\ outcome.status = "ok") =>
    /\ (readResult.op = "getTransactionById" /\ readResult.arg = outcome.id) =>
         /\ readResult.status = "ok"
         /\ readResult.value = outcome.id
    /\ (readResult.op = "fetchAccountBalance"
          /\ readResult.of = EntityAccountRef("USER_RECEIVABLES", "2").accountSlug) =>
         /\ readResult.status = "ok"
         /\ Cardinality(EntryRows(db.committed, outcome.id)) = 2 =>
              readResult.text = "100.00"

\* The order of the writes of one call: the transaction row, then for
\* each entry its resolution and its row.
Canon(n) ==
  [i \in 1..(2 * n + 1) |->
     IF i = 1 THEN Ev("insertTransaction", 0)
     ELSE IF i % 2 = 0 THEN Ev("resolve", i \div 2)
     ELSE Ev("insertEntry", (i - 1) \div 2)]

IsStep(e) == e.op \notin RunnerCalls
Steps == SelectSeq(trace, IsStep)

IsPrefix(a, b) == Len(a) <= Len(b) /\ \A i \in 1..Len(a) : a[i] = b[i]

AccountSlugOf(t, id) ==
  IF \E row \in t.accounts : row.id = id
    THEN (CHOOSE row \in t.accounts : row.id = id).slug
    ELSE ""

\* The connection of the call sees the transaction row and exactly the
\* rows of the first m entries of flatEntries(), inserted in that order.
RowsWritten(m) ==
  LET rows == EntryRows(View(db), txId)
  IN /\ TransactionRows(View(db), txId) # {}
     /\ Cardinality(rows) = m
     /\ \A i \in 1..m :
          \E row \in rows :
            /\ row.id = atEntry.db.nextEntryId + i - 1
            /\ row.action = Entries[i].action
            /\ row.amount = Entries[i].amount
            /\ AccountSlugOf(View(db), row.account) = Entries[i].account.accountSlug

\* C8: a posting that owns the boundary and returned.  The storage called
\* startTransaction, made its writes, called commitTransaction once as
\* the last thing, never rollbackTransaction; the projection has the id of
\* the inserted transaction row and the id of the ledger, and the row and
\* all entry rows are committed.
C8_CommitOnce ==
  (pc = "done" /\ manageTransaction /\ ~ActiveAtEntry /\ outcome.status = "ok") =>
    /\ trace = << Ev("startTransaction", 0) >> \o Canon(Len(Entries))
                 \o << Ev("commitTransaction", 0) >>
    /\ CountOf("commitTransaction") = 1
    /\ CountOf("rollbackTransaction") = 0
    /\ outcome = Projection(txId, SeedLedger.id)
    /\ TransactionRows(db.committed, outcome.id)
         = {[id |-> outcome.id, ledgerId |-> outcome.ledgerId]}
    /\ Cardinality(EntryRows(db.committed, outcome.id)) = Len(Entries)

\* An owned posting of a debit and a credit returned.
C8_Witness ==
  /\ pc = "done"
  /\ owns
  /\ outcome.status = "ok"
  /\ Len(Entries) = 2
  /\ Len(trace) = 7
  /\ CountOf("commitTransaction") = 1

\* Failures of the connection or of the statement itself, whatever rows
\* the tables hold.
TransportErrors ==
  {"ConnError", "StmtError", "TxAborted", "PoolEnded", "PrimaryKeyViolation"}

\* C9: a ledger slug that does not resolve.  The call makes no runner
\* call and no write, inserts no row, provisions no account and draws no
\* id; it ends at getLedgerIdBySlug by throwing, LedgerNotFound unless the
\* SELECT itself failed.
C9_LedgerNotFoundFirst ==
  (pc # "idle" /\ txn.ledgerSlug = UnknownLedgerSlug) =>
    /\ pc \in {"getLedger", "done"}
    /\ trace = << >>
    /\ ~owns
    /\ txId = 0
    /\ runner.isTransactionActive = ActiveAtEntry
    /\ db.committed = atEntry.db.committed
    /\ db.pending.tx \subseteq atEntry.db.pending.tx
    /\ db.pending.entries \subseteq atEntry.db.pending.entries
    /\ db.pending.accounts \subseteq atEntry.db.pending.accounts
    /\ db.nextTxId = atEntry.db.nextTxId
    /\ db.nextEntryId = atEntry.db.nextEntryId
    /\ db.nextAcctId = atEntry.db.nextAcctId
    /\ pc = "done" =>
         /\ outcome = Thrown(error)
         /\ error.at = "getLedger"
         /\ error.type \notin TransportErrors => error.type = "LedgerNotFound"

\* A storage that manages transactions, with none active, was asked to
\* post to an unknown ledger and threw LedgerNotFound.
C9_Witness ==
  /\ pc = "done"
  /\ manageTransaction /\ ~ActiveAtEntry
  /\ txn.ledgerSlug = UnknownLedgerSlug
  /\ outcome = Thrown(Err("LedgerNotFound", "getLedger"))

\* C10: order within one call.  The writes are a prefix of: transaction
\* row, resolve 1, entry row 1, resolve 2, entry row 2, ...; when the
\* resolution of entry k fails the rows of entries 1..k-1, and only
\* those, are in the transaction; when the loop is over the rows of all
\* entries are, in the order of flatEntries().
C10_EntryOrder ==
  /\ pc # "idle" => IsPrefix(Steps, Canon(Len(Entries)))
  /\ (pc = "unwind" /\ error = Err("AccountNotFound", "resolve")) =>
       /\ Steps[Len(Steps)] = Ev("resolve", k)
       /\ RowsWritten(k - 1)
  /\ pc = "complete" => RowsWritten(Len(Entries))

\* The resolution of the second entry failed after the row of the first.
C10_Witness ==
  /\ pc = "unwind"
  /\ error = Err("AccountNotFound", "resolve")
  /\ k = 2
  /\ Cardinality(EntryRows(View(db), txId)) = 1

\* C11: system accounts are never auto-created.  A posting that has
\* resolved a SystemAccountRef holds the id of an account that insertAccount
\* created; when the last thing a posting did was to resolve a
\* SystemAccountRef whose slug has no account, the posting is failing with
\* AccountNotFound; and at every moment the system (non-entity) accounts,
\* committed or seen on the runner's connection, are exactly the accounts
\* insertAccount created.
C11_SystemNeverProvisioned ==
  /\ findSystemAccounts(db.committed, SeedLedger.id) = SeedAccounts
  /\ findSystemAccounts(View(db), SeedLedger.id) = SeedAccounts
  /\ (pc = "insertEntry" /\ EntryAt(Entries, k).account.type = "SYSTEM") =>
       \E la \in SeedAccounts :
         /\ la.slug = EntryAt(Entries, k).account.accountSlug
         /\ la.id = ledgerAccountId
  /\ (/\ Len(trace) > 0
      /\ trace[Len(trace)] = Ev("resolve", k)
      /\ EntryAt(Entries, k).account.type = "SYSTEM"
      /\ AccountRows(View(db), EntryAt(Entries, k).account.accountSlug) = {}) =>
       /\ pc \in {"unwind", "done"}
       /\ error = Err("AccountNotFound", "resolve")
       /\ pc = "done" => outcome = Thrown(error)

\* A posting provisioned its entity account and then failed to resolve a
\* system account that does not exist.
C11_Witness ==
  /\ pc = "unwind"
  /\ error = Err("AccountNotFound", "resolve")
  /\ EntryAt(Entries, k).account = SystemAccountRef("SYSTEM_MISSING")
  /\ Cardinality(View(db).accounts) = 2

C13_ReleaseSafe ==
  [][Release =>
       /\ readResult'.status = "ok"
       /\ (~runner.client /\ runner.poolEnded) =>
            (runner' = runner /\ db' = db)]_vars

\* C20: fetchAccountBalance never provisions.  Every call of
\* fetchAccountBalance leaves the account rows and the account id sequence
\* as they were, and a call for a reference whose slug has no account row
\* throws: AccountNotFound, unless the SELECT itself failed.
C20_BalanceNeverProvisions ==
  [][(pc # "read" /\ pc' = "read" /\ readResult'.op = "fetchAccountBalance") =>
       /\ db'.committed.accounts = db.committed.accounts
       /\ View(db').accounts = View(db).accounts
       /\ db'.nextAcctId = db.nextAcctId
       /\ AccountRows(View(db), readResult'.of) = {} =>
            /\ readResult'.status = "throw"
            /\ readResult'.text \notin TransportErrors =>
                 readResult'.text = "AccountNotFound"]_vars

\* The balance of an entity account that no posting has provisioned was
\* asked for, on a storage whose ledger already has the entity account type.
C20_Witness ==
  /\ pc = "read"
  /\ readResult = ReadThrew("fetchAccountBalance", 0, "USER_RECEIVABLES:2",
                            "AccountNotFound")
  /\ EntityTypeExists(View(db), "USER_RECEIVABLES")
  /\ AccountRows(View(db), "USER_RECEIVABLES:2") = {}

\* A transactional runner can be reached from what was handed over: the
\* object itself, its queryRunner, or the queryRunner of its manager has
\* all of startTransaction, commitTransaction and rollbackTransaction.
ProvidesTransactions(value) ==
  \/ value.startTransaction /\ value.commitTransaction /\ value.rollbackTransaction
  \/ \E qr \in {value.queryRunner, value.manager.queryRunner} :
       qr.present /\ qr.startTransaction /\ qr.commitTransaction
         /\ qr.rollbackTransaction

\* C14: the protocol error of the constructor.  Once the constructor has
\* run on a connection that can query: when self-managed transactions were
\* requested (manageTransaction true or left to its default) and no
\* runner with all of startTransaction, commitTransaction and
\* rollbackTransaction is provided, it threw the protocol error; a storage
\* that exists and manages transactions has such a runner; and with
\* manageTransaction false the connection was accepted.
C14_ProtocolError ==
  pc # "new" =>
    /\ (/\ given.runnerOrManager.query
        /\ given.options # "false"
        /\ ~ProvidesTransactions(given.runnerOrManager)) =>
         /\ pc = "rejected"
         /\ readResult = ReadThrew("new", 0, "", "ProtocolError")
    /\ (pc # "rejected" /\ manageTransaction) =>
         ProvidesTransactions(given.runnerOrManager)
    /\ (given.runnerOrManager.query /\ given.options = "false") =>
         /\ pc # "rejected"
         /\ ~manageTransaction

\* A runner with startTransaction and commitTransaction but no
\* rollbackTransaction was handed over with the default options.
C14_Witness ==
  /\ pc = "rejected"
  /\ readResult = ReadThrew("new", 0, "", "ProtocolError")
  /\ given.options = "undefined"
  /\ given.runnerOrManager.startTransaction
  /\ given.runnerOrManager.commitTransaction
  /\ ~given.runnerOrManager.rollbackTransaction

\* C15: in every state the storage can reach, every stored account type
\* that has a parent, committed or written in the open transaction, has
\* a stored parent with the same normalBalance.
C15_ParentBalance ==
  \A t \in {db.committed, View(db)} :
    \A lat \in t.types :
      lat.parentLedgerAccountTypeId # 0 =>
        \E parent \in t.types :
          /\ parent.id = lat.parentLedgerAccountTypeId
          /\ parent.normalBalance = lat.normalBalance

\* A child of an account type that was itself inserted as a child.
C15_Witness ==
  \E lat \in db.committed.types :
    /\ lat.parentLedgerAccountTypeId = 3
    /\ \E parent \in db.committed.types :
         parent.id = 3 /\ parent.parentLedgerAccountTypeId = 1

\* Errors that end insertAccountType before it looks at the parent.
BeforeParentCheck ==
  TransportErrors \cup {"AccountTypeAlreadyExists", "ExpectedAtMostOneRow"}

\* C16: the parent checks of insertAccountType.  A call that got as far
\* as the parent has thrown ParentAccountTypeNotFound when no account type
\* had the id parentLedgerAccountTypeId, and NormalBalanceMismatch when the
\* parent's normalBalance differed from the input's; either way the stored
\* account types and the id sequence are as they were before the call.
C16_ParentChecks ==
  (/\ pc = "done"
   /\ readResult.op = "insertAccountType"
   /\ HasParent(txn.parentLedgerAccountTypeId)
   /\ readResult.text \notin BeforeParentCheck) =>
    LET parents == TypeRowsById(View(atEntry.db), txn.parentLedgerAccountTypeId)
        same == /\ db.committed.types = atEntry.db.committed.types
                /\ View(db).types = View(atEntry.db).types
                /\ db.nextTypeId = atEntry.db.nextTypeId
    IN /\ parents = {} =>
            /\ readResult = ReadThrew("insertAccountType", 0, txn.slug,
                                      "ParentAccountTypeNotFound")
            /\ same
       /\ (\E parent \in parents : parent.normalBalance # txn.normalBalance) =>
            /\ readResult = ReadThrew("insertAccountType", 0, txn.slug,
                                      "NormalBalanceMismatch")
            /\ same

\* C17: one non-entity account type per slug.  No two stored non-entity
\* account types share a slug, and an insertAccountType whose slug was
\* that of a stored non-entity account type has thrown
\* AccountTypeAlreadyExists (unless a query of it failed) and left the
\* stored account types and the id sequence as they were, whatever the
\* input's isEntityLedgerAccount and whatever else had that slug.
C17_OneTypePerSlug ==
  /\ \A a, b \in View(db).types :
       (a.slug = b.slug /\ ~a.isEntityLedgerAccount /\ ~b.isEntityLedgerAccount)
         => a = b
  /\ (/\ pc = "done"
      /\ readResult.op = "insertAccountType"
      /\ readResult.text \notin TransportErrors
      /\ \E lat \in TypeRowsBySlug(View(atEntry.db), txn.slug) :
           ~lat.isEntityLedgerAccount) =>
       /\ readResult = ReadThrew("insertAccountType", 0, txn.slug,
                                 "AccountTypeAlreadyExists")
       /\ db.committed.types = atEntry.db.committed.types
       /\ View(db).types = View(atEntry.db).types
       /\ db.nextTypeId = atEntry.db.nextTypeId

\* C18: insertAccount resolves the account type first and inserts one
\* account per ledger and slug.  An insertAccount whose account type id
\* had no row has thrown AccountTypeNotFound, and one whose slug was that of
\* an account of the same ledger has thrown DuplicateAccountSlug (unless a
\* query of it failed); either left every account row and the id sequence
\* as they were.  No two stored accounts share ledger and slug.
C18_InsertAccount ==
  /\ \A a, b \in View(db).accounts :
       (a.ledgerId = b.ledgerId /\ a.slug = b.slug) => a = b
  /\ (/\ pc = "done"
      /\ readResult.op = "insertAccount"
      /\ readResult.text \notin TransportErrors) =>
       LET typeAbsent ==
             TypeRowsById(View(atEntry.db), txn.ledgerAccountTypeId) = {}
           slugTaken ==
             AccountRowsIn(View(atEntry.db), txn.ledgerId, txn.slug) # {}
           untouched ==
             /\ db.committed.accounts = atEntry.db.committed.accounts
             /\ View(db).accounts = View(atEntry.db).accounts
             /\ db.nextAcctId = atEntry.db.nextAcctId
       IN /\ typeAbsent =>
               /\ readResult = ReadThrew("insertAccount", txn.ledgerId, txn.slug,
                                         "AccountTypeNotFound")
               /\ untouched
          /\ (~typeAbsent /\ slugTaken) =>
               /\ readResult = ReadThrew("insertAccount", txn.ledgerId, txn.slug,
                                         "DuplicateAccountSlug")
               /\ untouched

\* The seeded slug was inserted again in its ledger and was refused, and
\* the same slug was stored in the other ledger.
C18_Witness ==
  /\ pc = "done"
  /\ readResult = ReadThrew("insertAccount", 1, "SYSTEM_INCOME_PAID_PROJECTS",
                            "DuplicateAccountSlug")
  /\ AccountRowsIn(atEntry.db.committed, 2, "SYSTEM_INCOME_PAID_PROJECTS") # {}
  /\ AccountRowsIn(db.committed, 1, "SYSTEM_INCOME_PAID_PROJECTS") = SeedAccounts

\* The rows a lookup asks for, in the tables t.
Lookups ==
  {"findAccount", "findAccountTypeBySlug", "findEntityAccountTypes",
   "findSystemAccounts"}
LookedUp(op, t, input) ==
  IF op = "findAccount" THEN AccountRowsOf(t, input)
  ELSE IF op = "findAccountTypeBySlug" THEN TypeRowsBySlug(t, input.slug)
  ELSE IF op = "findEntityAccountTypes" THEN findEntityAccountTypes(t, input.ledgerId)
  ELSE findSystemAccounts(t, input.ledgerId)

\* C19: the four lookups are pure.  A lookup never changes a committed row,
\* the runner's transaction flag or its pool; unless its query failed it
\* leaves the whole database side (uncommitted rows, transaction state, id
\* sequences) as it was; when no row matched it returned null (id 0) or an
\* empty list; and the only thing it throws besides the query's own failure
\* is maybeOne's error for more than one matching row.
C19_PureLookups ==
  (pc = "done" /\ readResult.op \in Lookups) =>
    LET rows == LookedUp(readResult.op, View(atEntry.db), txn)
        failed == readResult.text \in TransportErrors
    IN /\ db.committed = atEntry.db.committed
       /\ runner.isTransactionActive = atEntry.runner.isTransactionActive
       /\ runner.poolEnded = atEntry.runner.poolEnded
       /\ ~failed => db = atEntry.db
       /\ (~failed /\ rows = {}) =>
            (readResult.status = "ok" /\ readResult.value = 0)
       /\ (~failed /\ readResult.status = "throw") =>
            /\ readResult.text = "ExpectedAtMostOneRow"
            /\ Cardinality(rows) > 1

\* Inside the caller's open transaction findAccount missed the entity
\* account USER_RECEIVABLES:2, whose account type exists, and returned null.
C19_Witness ==
  /\ pc = "done"
  /\ readResult = ReadOk("findAccount", 0, "USER_RECEIVABLES:2", 0, "")
  /\ runner.isTransactionActive
  /\ db.tx = "open"
  /\ EntityTypeExists(View(db), "USER_RECEIVABLES")

\* C21: transactions and entries are append-only.  No step of the storage,
\* of the runner or of the caller removes or alters a committed
\* ledger_transaction or ledger_transaction_entry row: every committed row
\* is committed, as it is, after the step, and no other row takes its id.
C21_AppendOnly ==
  [][/\ db.committed.tx \subseteq db'.committed.tx
     /\ db.committed.entries \subseteq db'.committed.entries
     /\ \A a, b \in db'.committed.tx : a.id = b.id => a = b
     /\ \A a, b \in db'.committed.entries : a.id = b.id => a = b]_vars

\* A posting is committed with its entries, and a later posting that wrote
\* its transaction row has thrown and was rolled back.
C21_Witness ==
  \E p \in posted :
    /\ ~p.ok
    /\ ~Visible(View(db), p.id)
    /\ \E q \in posted :
         /\ q.ok /\ q.id < p.id
         /\ TransactionRows(db.committed, q.id) # {}
         /\ Cardinality(EntryRows(db.committed, q.id)) = q.n

\* The rule for names as the specification words it: not empty, made of
\* letters, digits, underscores and hyphens, first and last character a
\* letter or a digit.
NameCharAllowed(c) == IsLetter(c) \/ IsDigit(c) \/ c \in {"_", "-"}
FollowsNameRule(name) ==
  /\ name # << >>
  /\ \A i \in 1..Len(name) : NameCharAllowed(name[i])
  /\ IsLetter(name[1]) \/ IsDigit(name[1])
  /\ IsLetter(name[Len(name)]) \/ IsDigit(name[Len(name)])
NameErrors == {"AccountNameEmpty", "AccountNameInvalid"}

\* C22: every name that follows the rule is accepted.  A SystemAccountRef
\* constructed with such a name exists and its accountSlug is the name; an
\* EntityAccountRef constructed with it is not refused for its name.
C22_RuleNamesAccepted ==
  (pc = "done" /\ FollowsNameRule(given.name)) =>
    /\ outcome.op = "SystemAccountRef" =>
         (outcome.status = "ok" /\ outcome.ref.accountSlug = given.name)
    /\ outcome.op = "EntityAccountRef" => outcome.error \notin NameErrors

\* C23: every name that breaks the rule is refused.  Constructing a
\* SystemAccountRef or an EntityAccountRef with a non-empty name that starts
\* or ends with an underscore or hyphen, or holds a space, a colon or another
\* special character, throws AccountNameInvalid whatever the external id;
\* with the empty name it throws AccountNameEmpty; no reference results.
C23_BadNamesRefused ==
  pc = "done" =>
    /\ (given.name # << >> /\ ~FollowsNameRule(given.name)) =>
         outcome = RefThrew(outcome.op, "AccountNameInvalid")
    /\ given.name = << >> => outcome = RefThrew(outcome.op, "AccountNameEmpty")

\* An EntityAccountRef with a name ending in an underscore and a good
\* external id was refused for its name.
C23_Witness ==
  /\ pc = "done"
  /\ given = [name |-> <<"A", "7", "_">>, externalId |-> NumberId(7)]
  /\ outcome = RefThrew("EntityAccountRef", "AccountNameInvalid")

\* An external id the specification admits: a finite number, or a string
\* that is not empty and holds neither white space nor a colon.
AdmittedExternalId(externalId) ==
  IF externalId.type = "number" THEN externalId.finite
  ELSE /\ externalId.string # << >>
       /\ \A i \in 1..Len(externalId.string) :
            externalId.string[i] # ":" /\ ~IsSpace(externalId.string[i])

\* C24: the slug of an entity reference.  For a name that follows the rule:
\* with an admitted external id the EntityAccountRef exists, its accountSlug
\* is the name, a colon and the string form of the id, and its externalId is
\* the id as given; with any other id the constructor throws
\* InvalidExternalId.
C24_EntitySlug ==
  (pc = "done" /\ outcome.op = "EntityAccountRef" /\ FollowsNameRule(given.name)) =>
    IF AdmittedExternalId(given.externalId)
      THEN /\ outcome.status = "ok"
           /\ outcome.ref.accountSlug =
                given.name \o <<":">> \o StringOf(given.externalId)
           /\ outcome.ref.externalId = given.externalId
      ELSE outcome = RefThrew("EntityAccountRef", "InvalidExternalId")

\* Where the first colon of a string is; 0 without a colon.
FirstColon(string) ==
  IF \A i \in 1..Len(string) : string[i] # ":" THEN 0
  ELSE CHOOSE i \in 1..Len(string) :
         string[i] = ":" /\ \A j \in 1..(i - 1) : string[j] # ":"

\* C28: the accountSlug identifies the reference.  The accountSlug of an
\* EntityAccountRef holds exactly one colon, with the name before it and the
\* string form of the external id after it, so that two entity references
\* with one slug have one name and one string form of the id; the
\* accountSlug of a SystemAccountRef holds no colon and so is the slug of no
\* EntityAccountRef.
C28_SlugIdentifies ==
  (pc = "done" /\ outcome.status = "ok") =>
    LET slug == outcome.ref.accountSlug
        colon == FirstColon(slug)
    IN IF outcome.op = "EntityAccountRef"
         THEN /\ colon > 0
              /\ SubSeq(slug, 1, colon - 1) = outcome.ref.name
              /\ SubSeq(slug, colon + 1, Len(slug)) = StringOf(outcome.ref.externalId)
              /\ FirstColon(outcome.ref.name) = 0
              /\ FirstColon(StringOf(outcome.ref.externalId)) = 0
         ELSE colon = 0

\* An EntityAccountRef was built whose number id has the string form of a
\* string id.
C28_Witness ==
  /\ pc = "done"
  /\ outcome.status = "ok"
  /\ outcome.op = "EntityAccountRef"
  /\ given.externalId = NumberId(7)
  /\ outcome.ref.accountSlug = <<"A", "_", "7", ":", "7">>

\* C25: only the targeted uniqueness violation is translated.  insertAccount
\* has thrown DuplicateAccountSlug, and insertCurrency DuplicateCurrencyCode,
\* only when the (ledger, slug), respectively the code, was stored already;
\* when it was, they threw exactly that unless the call failed otherwise
\* before; and every other failure - of the connection, of the statement, a
\* foreign key, a uniqueness violation of the primary key - has reached the
\* caller as itself.
C25_ConflictsOnly ==
  (pc = "done" /\ readResult.op \in {"insertAccount", "insertCurrency"}) =>
    LET t == View(atEntry.db)
        conflict ==
          IF readResult.op = "insertAccount"
            THEN AccountRowsIn(t, txn.ledgerId, txn.slug) # {}
            ELSE CurrencyRows(t, txn.code) # {}
        translated ==
          IF readResult.op = "insertAccount"
            THEN "DuplicateAccountSlug" ELSE "DuplicateCurrencyCode"
        others ==
          TransportErrors \cup {"AccountTypeNotFound", "ForeignKeyViolation"}
    IN /\ readResult.text = translated => conflict
       /\ (conflict /\ readResult.text \notin others) =>
            readResult = ReadThrew(readResult.op, readResult.arg, readResult.of,
                                   translated)
       /\ (readResult.status = "throw" /\ readResult.text # translated) =>
            readResult.text \in others

\* The primary key refused the INSERT of an account whose slug the ledger
\* already had, and the caller got the driver's error.
C25_Witness ==
  /\ pc = "done"
  /\ readResult = ReadThrew("insertAccount", 1, "SYSTEM_INCOME_PAID_PROJECTS",
                            "PrimaryKeyViolation")
  /\ AccountRowsIn(View(atEntry.db), 1, "SYSTEM_INCOME_PAID_PROJECTS") # {}

\* C26: a posting ends the transaction it started.  When an
\* insertTransaction that started the transaction itself has returned or
\* thrown, the runner has no active transaction: its isTransactionActive is
\* false and no transaction is open on its connection.
C26_EndsWhatItStarted ==
  (pc = "done" /\ owns) =>
    /\ ~runner.isTransactionActive
    /\ db.tx # "open"

\* ------------------------------------------- a reader on another connection
\* What a statement of another connection reads under READ COMMITTED: the
\* rows committed when the statement starts, never the pending writes of
\* the posting connection.
ReadCommitted(d) == d.committed

\* getTransactionEntries, after its getTransactionById: the rows of
\* ledger_entry with that ledger_transaction_id.
TransactionEntries(t, id) ==
  ReadOk("getTransactionEntries", id, "", EntryRows(t, id), "")

\* verifyStorage.getTransactionById(id) on a second storage with its own
\* runner; also the first statement of its getTransactionEntries(id).
ReaderGetTransactionById(id, f) ==
  /\ readResult' = IF f # "ok"
                     THEN ReadThrew("getTransactionById", id, "", "ConnError")
                     ELSE TransactionById(ReadCommitted(db), id)
  /\ UNCHANGED << runner, db, given, manageTransaction, pc, txn, ledgerId, owns,
                  txId, k, ledgerAccountId, error, outcome, trace, atEntry,
                  calls, posted >>

\* The second statement of getTransactionEntries(id) on the second storage,
\* run once its getTransactionById has returned the row.
ReaderSelectEntries(f) ==
  /\ readResult.op = "getTransactionById"
  /\ readResult.status = "ok"
  /\ readResult' = IF f # "ok"
                     THEN ReadThrew("getTransactionEntries", readResult.arg, "",
                                    "ConnError")
                     ELSE TransactionEntries(ReadCommitted(db), readResult.arg)
  /\ UNCHANGED << runner, db, given, manageTransaction, pc, txn, ledgerId, owns,
                  txId, k, ledgerAccountId, error, outcome, trace, atEntry,
                  calls, posted >>

\* new TypeormLedgerStorage(runner) with the default options: the storage
\* manages its transactions.
ReaderInit == Init /\ manageTransaction

\* Standalone postings on one storage, and a second storage reading.
ReaderNext ==
  \/ \E t \in Transactions : Call(t)
  \/ \E f \in Faults : GetLedgerIdBySlug(f)
  \/ \E f \in ConnFaults : WithTransaction(f)
  \/ \E f \in Faults : InsertTransactionRow(f)
  \/ \E f \in Faults : ResolveLedgerAccountId(f)
  \/ \E f \in Faults : InsertEntry(f)
  \/ \E f \in Faults : Complete(f)
  \/ \E f \in ConnFaults : Unwind(f)
  \/ \E id \in 1..MaxCalls, f \in ConnFaults : ReaderGetTransactionById(id, f)
  \/ \E f \in ConnFaults : ReaderSelectEntries(f)

ReaderSpec == ReaderInit /\ [][ReaderNext]_vars

\* C27: a reader on another connection never sees part of a posting.
\* While standalone postings run on a storage that manages its
\* transactions, whenever getTransactionById of a second storage has
\* returned a transaction, the posting that inserted it has returned and
\* did not throw, and whenever its getTransactionEntries has returned, it
\* returned as many entries as that posting had flattened entries.
C27_ReaderSeesWholePostings ==
  (readResult.op \in {"getTransactionById", "getTransactionEntries"}
     /\ readResult.status = "ok") =>
    /\ \E p \in posted :
         /\ p.id = readResult.arg
         /\ p.ok
         /\ readResult.op = "getTransactionEntries" =>
              Cardinality(readResult.value) = p.n
    /\ \A p \in posted : p.id = readResult.arg => p.ok

\* The second storage read a posting of two entries in full.
C27_Witness ==
  /\ readResult.op = "getTransactionEntries"
  /\ readResult.status = "ok"
  /\ Cardinality(readResult.value) = 2
  /\ \E p \in posted : p.id = readResult.arg /\ p.ok /\ p.n = 2

====
